---- MODULE Spec2Model ----
(***************************************************************************)
(* A model of the projection engines of financial-calcs: the input         *)
(* validators, the calculate<Engine>Projection / ...WithOverrides drivers  *)
(* and their year-by-year loops.  One behaviour is one call of one         *)
(* engine: Init draws the engine, the entry point and the input record;    *)
(* Call_<Engine> is the function entry (wrapper, validation, pre-loop      *)
(* set-up); Iterate_<Engine> is one pass of the for loop (it appends one   *)
(* row); Return_<Engine> is the loop exit.                                 *)
(*                                                                         *)
(* Numbers: years, ages and counts are integers.  Money and rates are JS   *)
(* numbers; they are modelled as exact rationals <<n, d>> in lowest terms  *)
(* with d > 0, so +, -, *, /, comparison, Math.round, Math.min and         *)
(* Math.max are computed, not abstracted.                                  *)
(***************************************************************************)
EXTENDS Integers, Sequences, FiniteSets, TLC

VARIABLES
    engine,   \* which engine is called
    entry,    \* "plain": calculate<Engine>Projection, "withOverrides": ...WithOverrides
    arg,      \* the input record the caller passes
    inp,      \* the input record the WithOverrides body works on
    acc,      \* the loop's running values (the `let` variables of the body)
    rows,     \* the rows pushed so far
    pc,       \* "call", "loop", "returned", "thrown"; "validate", "validated"
    errors,   \* the list validate<Engine>Input returned
    thrown,   \* err.validationErrors of the thrown error
    now,      \* the clock: what `new Date()` returns, as [year, month]
    earlier   \* the outcome of an earlier call with the same argument, if any

vars == <<engine, entry, arg, inp, acc, rows, pc, errors, thrown, now, earlier>>

---------------------------------------------------------------------------
(* JS numbers as exact rationals *)

Abs(x) == IF x < 0 THEN -x ELSE x

RECURSIVE GCD(_, _)
GCD(a, b) == IF b = 0 THEN a ELSE GCD(b, a % b)

Q(n, d) ==
    LET s == IF d < 0 THEN -1 ELSE 1
        g == GCD(Abs(n), Abs(d))
    IN  <<(s * n) \div g, (s * d) \div g>>

Z(n) == <<n, 1>>

\* sums and products are reduced before they are multiplied out
Add(a, b) ==
    LET g == GCD(a[2], b[2])
    IN  Q(a[1] * (b[2] \div g) + b[1] * (a[2] \div g), (a[2] \div g) * b[2])
Neg(a) == <<-a[1], a[2]>>
Sub(a, b) == Add(a, Neg(b))
Mul(a, b) ==
    LET g1 == GCD(Abs(a[1]), b[2])
        g2 == GCD(Abs(b[1]), a[2])
    IN  Q((a[1] \div g1) * (b[1] \div g2), (a[2] \div g2) * (b[2] \div g1))
Div(a, b) == Mul(a, Q(b[2], b[1]))
Lt(a, b) ==
    LET g == GCD(a[2], b[2])
    IN  a[1] * (b[2] \div g) < b[1] * (a[2] \div g)
Le(a, b) == ~Lt(b, a)
Pct(r)    == Div(r, Z(100))
OnePlusPct(r) == Add(Z(1), Pct(r))

\* Math.round: the nearest integer, a tie going up
MathRound(a) == Z((2 * a[1] + a[2]) \div (2 * a[2]))
MathMax(a, b) == IF Lt(a, b) THEN b ELSE a
MathMinFirst(a, b) == a
MathMin(a, b) == IF Lt(b, a) THEN b ELSE a

RECURSIVE MathPow(_, _)
MathPow(a, k) ==
    IF k <= 0 THEN Z(1)
    ELSE IF k % 2 = 0 THEN Mul(MathPow(a, k \div 2), MathPow(a, k \div 2))
    ELSE Mul(a, MathPow(a, k - 1))

(* An optional property of an object: the key is absent, the key holds     *)
(* undefined, or the key holds a number.                                   *)
Absent    == [tag |-> "absent", val |-> Z(0)]
Undefined == [tag |-> "undefined", val |-> Z(0)]
Num(x)    == [tag |-> "number", val |-> x]

\* o !== undefined
IsDefined(o) == o.tag = "number"
\* o ?? d
NullishOrFalsy(o, d) == IF IsDefined(o) /\ o.val # Z(0) THEN o.val ELSE d
Nullish(o, d) == IF IsDefined(o) THEN o.val ELSE d

\* if (cond) errors.push({ field, message })
PushIfFirst(errs, cond, field, message) ==
    IF cond /\ errs = <<>> THEN Append(errs, [field |-> field, message |-> message]) ELSE errs

Push(errs, cond, field, message) ==
    IF cond THEN Append(errs, [field |-> field, message |-> message]) ELSE errs

\* yearOverrides: {}
EmptyOverrides == [y \in {} |-> Absent]

\* yearOverrides[year] || {}   (also ?? {}): a missing year reads as the empty record
OverrideForPreviousYear(yearOverrides, year, emptyRecord) ==
    IF year - 1 \in DOMAIN yearOverrides THEN yearOverrides[year - 1] ELSE emptyRecord

OverrideFor(yearOverrides, year, emptyRecord) ==
    IF year \in DOMAIN yearOverrides THEN yearOverrides[year] ELSE emptyRecord

\* { ...input, yearOverrides: {} }
KeepOverrides(input) == input
WithoutOverrides(input) == [input EXCEPT !.yearOverrides = EmptyOverrides]

---------------------------------------------------------------------------
(* FERS pension: src/src/pension/fers.ts *)

FersEmptyOverride ==
    [salary |-> Absent, salaryGrowthRate |-> Absent, colaApplied |-> Absent]

getMRA(birthYear) ==
    IF birthYear < 1948 THEN Z(55)
    ELSE IF birthYear = 1948 THEN Add(Z(55), Q(2, 12))
    ELSE IF birthYear = 1949 THEN Add(Z(55), Q(4, 12))
    ELSE IF birthYear = 1950 THEN Add(Z(55), Q(6, 12))
    ELSE IF birthYear = 1951 THEN Add(Z(55), Q(8, 12))
    ELSE IF birthYear = 1952 THEN Add(Z(55), Q(10, 12))
    ELSE IF birthYear <= 1964 THEN Z(56)
    ELSE IF birthYear = 1965 THEN Add(Z(56), Q(2, 12))
    ELSE IF birthYear = 1966 THEN Add(Z(56), Q(4, 12))
    ELSE IF birthYear = 1967 THEN Add(Z(56), Q(6, 12))
    ELSE IF birthYear = 1968 THEN Add(Z(56), Q(8, 12))
    ELSE IF birthYear = 1969 THEN Add(Z(56), Q(10, 12))
    ELSE Z(57)

getMinimumServiceYear(birthYear, retirementAge, retirementType, pensionMultiplier) ==
    LET mra == getMRA(birthYear) IN
    IF Lt(Q(3, 2), pensionMultiplier)
    THEN (IF retirementAge >= 50 THEN 20 ELSE 25)
    ELSE IF retirementType = "regular"
    THEN (IF retirementAge >= 62 THEN 5
          ELSE IF retirementAge >= 60 THEN 20
          ELSE IF Le(mra, Z(retirementAge)) THEN 30
          ELSE 0)
    ELSE IF retirementType = "mra10"
    THEN (IF Le(mra, Z(retirementAge)) THEN 10 ELSE 0)
    ELSE IF retirementType = "early"
    THEN (IF retirementAge >= 50 THEN 20 ELSE 25)
    ELSE IF retirementType = "deferred"
    THEN (IF retirementAge >= 62 THEN 5
          ELSE IF Le(mra, Z(retirementAge)) THEN 10
          ELSE 0)
    ELSE 0

validateFersPensionInput(input) ==
    LET serviceStartAge == input.serviceStartYear - input.birthYear
        yearsOfService == input.retirementAge - (input.serviceStartYear - input.birthYear)
        minimumServiceYear ==
            getMinimumServiceYear(input.birthYear, input.retirementAge,
                                  input.retirementType, input.pensionMultiplier)
        e1 == Push(<<>>, input.startYear < 1900, "startYear",
                   "Start Year cannot be before 1900")
        e2 == Push(e1, input.birthYear < 1900, "birthYear",
                   "Birth Year cannot be before 1900")
        e3 == Push(e2, input.serviceStartYear < 1900, "serviceStartYear",
                   "Service Start Year cannot be before 1900")
        e4 == Push(e3, input.serviceEndYear < 1900, "serviceEndYear",
                   "Service End Year cannot be before 1900")
        e5 == Push(e4, input.retirementAge < 40 \/ input.retirementAge > 80,
                   "retirementAge", "Retirement Age must be between 40 and 80")
        e6 == Push(e5, input.yearsToProject <= 0, "yearsToProject",
                   "Must project at least 1 year")
        e7 == Push(e6, Le(input.currentSalary, Z(0)), "currentSalary",
                   "Salary cannot be negative")
        e8 == Push(e7, Lt(input.salaryGrowthRate, Z(-100)), "salaryGrowthRate",
                   "Growth rate cannot be less than -100%")
        e9 == Push(e8, Lt(input.survivorBenefitReduction, Z(0)),
                   "survivorBenefitReduction",
                   "Survivor Benefit Reductio cannot be negative")
        e10 == Push(e9, serviceStartAge < 16, "serviceStartYear",
                    "Must be at least 16 to start federal job")
        e11 == Push(e10, minimumServiceYear = 0, "retirementType",
                    "Not eligible to retire with pension")
        e12 == Push(e11, yearsOfService < minimumServiceYear, "serviceStartYear",
                    "Must serve at least ${minimumServiceYear} years for ${retirementType} retirement")
        e13 == Push(e12, input.retirementType = "deferred" /\ Le(input.high3Salary, Z(0)),
                    "high3Salary",
                    "High-3 salary must be provided for deferred retirement")
    IN  e13

(* prevSalary on entry to the pass of calculateSalaryHistory's loop for    *)
(* `year` (startYear <= year): currentSalary, then each year's salary      *)
(* grown by that year's rate.                                              *)
FersPrevSalaryWithoutOverrides(input, year) ==
    Mul(input.currentSalary,
        MathPow(OnePlusPct(input.salaryGrowthRate), year - input.startYear))

RECURSIVE FersPrevSalary(_, _)
FersPrevSalary(input, year) ==
    IF year <= input.startYear THEN input.currentSalary
    ELSE LET override == OverrideFor(input.yearOverrides, year - 1, FersEmptyOverride)
             salaryThisYear == Nullish(override.salary, FersPrevSalary(input, year - 1))
             growthToUse == Nullish(override.salaryGrowthRate, input.salaryGrowthRate)
         IN  Mul(salaryThisYear, OnePlusPct(growthToUse))

\* the salaryMap: year -> salary
calculateSalaryHistory(input) ==
    LET retirementYear == input.birthYear + input.retirementAge IN
    IF input.startYear >= retirementYear
    THEN [y \in {input.startYear} |-> input.currentSalary]
    ELSE [y \in input.startYear .. (retirementYear - 1) |->
            Nullish(OverrideFor(input.yearOverrides, y, FersEmptyOverride).salary,
                    FersPrevSalary(input, y))]

\* salaryMap[year]
SalaryMapAt(salaryMap, year) ==
    IF year \in DOMAIN salaryMap THEN Num(salaryMap[year]) ELSE Undefined

RECURSIVE SumOver(_, _)
SumOver(salaryMap, years) ==
    IF years = {} THEN Z(0)
    ELSE LET y == CHOOSE yy \in years : TRUE
         IN  Add(salaryMap[y], SumOver(salaryMap, years \ {y}))

calculateHigh3OverThree(salaryMap, startYear, endYear, retirementType, high3SalaryOverride) ==
    IF IsDefined(high3SalaryOverride) /\ retirementType = "deferred"
    THEN high3SalaryOverride.val
    ELSE Div(SumOver(salaryMap,
                     {y \in DOMAIN salaryMap :
                         Cardinality({k \in DOMAIN salaryMap : k > y}) < 3}),
             Z(3))
calculateHigh3(salaryMap, startYear, endYear, retirementType, high3SalaryOverride) ==
    IF IsDefined(high3SalaryOverride) /\ retirementType = "deferred"
    THEN high3SalaryOverride.val
    ELSE LET keys == DOMAIN salaryMap
             \* Object.keys lists integer keys in ascending order; slice(-3)
             last3 == {y \in keys : Cardinality({k \in keys : k > y}) < 3}
         IN  IF last3 = {} THEN Z(0)
             ELSE Div(SumOver(salaryMap, last3),
                      Z(IF Cardinality(last3) < 3 THEN Cardinality(last3) ELSE 3))

calculateYearsOfService(input) ==
    IF input.retirementType = "deferred"
    THEN input.serviceEndYear - input.serviceStartYear
    ELSE input.retirementAge - (input.serviceStartYear - input.birthYear)

calculatePensionReductionUnder62(input, yearsOfService) ==
    IF input.retirementType = "mra10" \/ input.retirementType = "deferred"
    THEN 5 * (IF 62 - input.retirementAge > 0 THEN 62 - input.retirementAge ELSE 0)
    ELSE 0
calculatePensionReduction(input, yearsOfService) ==
    IF input.retirementType = "mra10" \/ input.retirementType = "deferred"
    THEN LET under62 == IF 62 - input.retirementAge > 0 THEN 62 - input.retirementAge ELSE 0
         IN  IF yearsOfService < 30
             THEN (IF input.retirementType = "deferred" /\ yearsOfService >= 20
                      /\ input.retirementAge >= 60
                   THEN 0 ELSE 5 * under62)
             ELSE 0
    ELSE 0

calculateSalaryGrowthRate(currentSalary, nextSalary, overrideGrowth, defaultGrowth) ==
    IF IsDefined(nextSalary) /\ currentSalary # Z(0) /\ ~IsDefined(overrideGrowth)
    THEN Mul(Div(Sub(nextSalary.val, currentSalary), currentSalary), Z(100))
    ELSE Nullish(overrideGrowth, defaultGrowth)

calculateSpecialProvisionMultiplier(yearsOfService) ==
    LET first20 == IF yearsOfService < 20 THEN yearsOfService ELSE 20
        remaining == IF yearsOfService - 20 > 0 THEN yearsOfService - 20 ELSE 0
    IN  Add(Mul(Z(first20), Q(17, 10)), Z(remaining))

\* the pension before the loop (fers.ts lines 93-110)
FersBasePension(input) ==
    LET retirementYear == input.birthYear + input.retirementAge
        salaryMap == calculateSalaryHistory(input)
        high3 == calculateHigh3(salaryMap, input.startYear, retirementYear,
                                input.retirementType, Num(input.high3Salary))
        yearsOfService == calculateYearsOfService(input)
        pensionReduction == calculatePensionReduction(input, yearsOfService)
        keep == Sub(Z(1), Pct(Z(pensionReduction)))
        pension ==
            IF Lt(Q(3, 2), input.pensionMultiplier)
            THEN Mul(Mul(high3, Pct(calculateSpecialProvisionMultiplier(yearsOfService))), keep)
            ELSE Mul(Mul(Mul(high3, Pct(input.pensionMultiplier)), Z(yearsOfService)), keep)
    IN  Mul(pension, Sub(Z(1), input.survivorBenefitReduction))

\* the COLA condition of the loop body (fers.ts line 147)
FersColaAppliesFrom62(age, year, retirementYear) == age >= 62 /\ year > retirementYear
FersColaAppliesInRetirementYear(age, year, retirementYear) ==
    age >= 63 /\ year >= retirementYear
FersColaApplies(age, year, retirementYear) == age >= 63 /\ year > retirementYear

\* hasOverride of the loop body (fers.ts line 117)
FersHasOverride(override) ==
    IsDefined(override.salary) \/ IsDefined(override.salaryGrowthRate)
        \/ IsDefined(override.colaApplied)

(* One pass of the for loop (fers.ts lines 114-155): the row pushed and    *)
(* the pension carried to the next pass.                                   *)
FersPass(input, year, pension) ==
    LET retirementYear == input.birthYear + input.retirementAge
        age == year - input.birthYear
        override == OverrideFor(input.yearOverrides, year, FersEmptyOverride)
        hasOverride == FersHasOverride(override)
        salaryMap == calculateSalaryHistory(input)
        blank == [year |-> year, age |-> age, salary |-> Z(0), pension |-> Z(0),
                  monthlyPension |-> Z(0), salaryGrowthRate |-> Z(0),
                  colaApplied |-> Z(0), hasOverride |-> hasOverride]
    IN  IF year < retirementYear
        THEN IF input.retirementType = "deferred" /\ year > input.serviceEndYear
             THEN [row |-> blank, pension |-> pension]
             ELSE LET salary == Nullish(SalaryMapAt(salaryMap, year), Z(0))
                      nextSalary == SalaryMapAt(salaryMap, year + 1)
                      growth == calculateSalaryGrowthRate(salary, nextSalary,
                                    override.salaryGrowthRate, input.salaryGrowthRate)
                  IN  [row |-> [blank EXCEPT
                                  !.salary = salary,
                                  !.salaryGrowthRate =
                                      Div(MathRound(Mul(growth, Z(100))), Z(100))],
                       pension |-> pension]
        ELSE LET cola0 == Nullish(override.colaApplied, input.colaPercent)
                 applies == FersColaApplies(age, year, retirementYear)
                 pension1 == IF applies THEN Mul(pension, OnePlusPct(cola0)) ELSE pension
                 cola1 == IF applies THEN cola0 ELSE Z(0)
                 cola2 == IF input.retirementType = "deferred" /\ age < 62
                          THEN Z(0) ELSE cola1
             IN  [row |-> [blank EXCEPT
                             !.colaApplied = cola2,
                             !.pension = pension1,
                             !.monthlyPension = Div(pension1, Z(12))],
                  pension |-> pension1]

---------------------------------------------------------------------------
(* Military pension: src/src/pension/military.ts *)

MilitaryEmptyOverride == [colaApplied |-> Absent]

validateMilitaryPensionInput(input) ==
    LET serviceStartAge == input.serviceStartYear - input.birthYear
        yearsOfService == input.serviceEndYear - input.serviceStartYear
        e1 == Push(<<>>, input.startYear < 1900, "startYear",
                   "Start Year cannot be before 1900")
        e2 == Push(e1, input.birthYear < 1900, "birthYear",
                   "Birth Year cannot be before 1900")
        e3 == Push(e2, input.serviceStartYear < 1900, "serviceStartYear",
                   "Service Start Year cannot be before 1900")
        e4 == Push(e3, input.serviceEndYear < 1900, "serviceEndYear",
                   "Service End Year cannot be before 1900")
        e5 == Push(e4, input.serviceStartYear > input.serviceEndYear, "serviceStartYear",
                   "Service Start Year cannot be after Service End Year")
        e6 == Push(e5, input.yearsToProject <= 0, "yearsToProject",
                   "Must project at least 1 year")
        e7 == Push(e6, Le(input.high3Salary, Z(0)), "high3Salary",
                   "High-3 Salary cannot be negative")
        e8 == Push(e7, serviceStartAge < 17, "serviceStartYear",
                   "Must be at least 17 to join service")
        e9 == Push(e8, yearsOfService < 20, "serviceStartYear",
                   "Must serve at least 20 years for a regular active-duty retirement")
    IN  e9

getPensionMultiplier(retirementType) ==
    IF retirementType = "high3" THEN Q(5, 2) ELSE Z(2)

(* the loop of military.ts lines 82-88: COLA of the years between the      *)
(* retirement year and the start year, from year y on                      *)
MilitaryBackColaSkipped(input, y, monthlyPension) == monthlyPension
RECURSIVE MilitaryBackCola(_, _, _)
MilitaryBackCola(input, y, monthlyPension) ==
    IF y >= input.startYear THEN monthlyPension
    ELSE LET override == OverrideFor(input.yearOverrides, y, MilitaryEmptyOverride)
             colaToApply == Nullish(override.colaApplied, input.colaPercent)
         IN  MilitaryBackCola(input, y + 1, Mul(monthlyPension, OnePlusPct(colaToApply)))

\* monthlyPension before the main loop (military.ts lines 78-88)
MilitaryBasePension(input) ==
    LET retirementYear == input.serviceEndYear
        yearsOfService == input.serviceEndYear - input.serviceStartYear
        monthlyPension == Mul(Mul(input.high3Salary, Z(yearsOfService)),
                              Pct(getPensionMultiplier(input.retirementType)))
    IN  IF retirementYear < input.startYear
        THEN MilitaryBackCola(input, retirementYear + 1, monthlyPension)
        ELSE monthlyPension

MilitaryHasOverride(override) == IsDefined(override.colaApplied)

\* one pass of the main loop (military.ts lines 92-121)
MilitaryPass(input, year, monthlyPension) ==
    LET retirementYear == input.serviceEndYear
        age == year - input.birthYear
        override == OverrideFor(input.yearOverrides, year, MilitaryEmptyOverride)
        blank == [year |-> year, age |-> age, pension |-> Z(0), monthlyPension |-> Z(0),
                  colaApplied |-> Z(0), hasOverride |-> MilitaryHasOverride(override)]
    IN  IF year < retirementYear
        THEN [row |-> blank, monthlyPension |-> monthlyPension]
        ELSE LET cola == IF year = retirementYear THEN Z(0)
                         ELSE Nullish(override.colaApplied, input.colaPercent)
                 monthlyPension1 == Mul(monthlyPension, OnePlusPct(cola))
             IN  [row |-> [blank EXCEPT !.colaApplied = cola,
                                        !.monthlyPension = monthlyPension1,
                                        !.pension = Mul(monthlyPension1, Z(12))],
                  monthlyPension |-> monthlyPension1]

---------------------------------------------------------------------------
(* Social Security: src/src/socialSecurity/benefit.ts *)

SocialSecurityEmptyOverride == [colaApplied |-> Absent]

validateSocialSecurityBenefitInput(input) ==
    LET e1 == Push(<<>>, input.startYear < 1900, "startYear",
                   "Start Year cannot be before 1900")
        e2 == Push(e1, input.birthYear < 1900, "birthYear",
                   "Birth Year cannot be before 1900")
        e3 == Push(e2, input.claimingAge < 62, "claimingAge",
                   "Must be at least 62 to claim Social Security benefits")
        e4 == Push(e3, Le(input.averageIncome, Z(0)), "averageIncome",
                   "Average income cannot be negative")
        e5 == Push(e4, Lt(input.averageCOLA, Z(0)), "averageCOLA",
                   "Average COLA cannot be negative")
        e6 == Push(e5, input.yearsToProject <= 0, "yearsToProject",
                   "Must project at least 1 year")
    IN  e6

estimatePIA(averageIncome) ==
    LET bendPoint1 == Z(1226)
        bendPoint2 == Z(7391)
        taxableMax == Z(176100)
        cappedIncome == MathMin(averageIncome, taxableMax)
        monthlyIncome == Div(cappedIncome, Z(12))
    IN  IF Le(monthlyIncome, bendPoint1)
        THEN Mul(monthlyIncome, Q(9, 10))
        ELSE IF Le(monthlyIncome, bendPoint2)
        THEN Add(Mul(bendPoint1, Q(9, 10)),
                 Mul(Sub(monthlyIncome, bendPoint1), Q(32, 100)))
        ELSE Add(Add(Mul(bendPoint1, Q(9, 10)),
                     Mul(Sub(bendPoint2, bendPoint1), Q(32, 100))),
                 Mul(Sub(monthlyIncome, bendPoint2), Q(15, 100)))

calculateAdjustmentFactorFlat(claimingAge, fra) == Z(1)
calculateAdjustmentFactor(claimingAge, fra) ==
    IF Lt(claimingAge, fra)
    THEN Sub(Z(1), Mul(Mul(Sub(fra, claimingAge), Z(12)), Q(5, 1000)))
    ELSE IF Lt(fra, claimingAge)
    THEN Add(Z(1), Mul(Mul(Sub(claimingAge, fra), Z(12)), Q(67, 10000)))
    ELSE Z(1)

getFullRetirementAge(birthYear) ==
    IF birthYear <= 1937 THEN Z(65)
    ELSE IF birthYear >= 1938 /\ birthYear <= 1942
    THEN Add(Z(65), Mul(Z(birthYear - 1937), Q(2, 12)))
    ELSE IF birthYear >= 1943 /\ birthYear <= 1954 THEN Z(66)
    ELSE IF birthYear >= 1955 /\ birthYear <= 1959
    THEN Add(Z(66), Mul(Z(birthYear - 1954), Q(2, 12)))
    ELSE Z(67)

\* annualBenefitBase before the loop (benefit.ts lines 66-75)
SocialSecurityBase(input) ==
    LET fullRetirementAge == getFullRetirementAge(input.birthYear)
        estimatedPIA == estimatePIA(input.averageIncome)
        reductionOrIncreaseFactor ==
            calculateAdjustmentFactor(Z(input.claimingAge), fullRetirementAge)
    IN  Mul(Mul(estimatedPIA, Z(12)), reductionOrIncreaseFactor)

\* the COLA step of a pass: if (i > 0 && isClaiming) (benefit.ts line 91)
SocialSecurityColaAppliesFromStart(i, isClaiming) == isClaiming
SocialSecurityColaApplies(i, isClaiming) == i > 0 /\ isClaiming

\* one pass of the loop (benefit.ts lines 79-106)
SocialSecurityPass(input, i, annualBenefitBase) ==
    LET year == input.startYear + i
        age == year - input.birthYear
        claimingYear == input.birthYear + input.claimingAge
        override == OverrideFor(input.yearOverrides, year, SocialSecurityEmptyOverride)
        isClaiming == year >= claimingYear
        benefitForYear == IF isClaiming THEN annualBenefitBase ELSE Z(0)
        colaToUse == Nullish(override.colaApplied, input.averageCOLA)
        bump == SocialSecurityColaApplies(i, isClaiming)
    IN  [row |-> [year |-> year, age |-> age,
                  colaApplied |-> IF bump THEN colaToUse ELSE Z(0),
                  annualBenefit |-> MathRound(benefitForYear),
                  monthlyBenefit |-> MathRound(Div(benefitForYear, Z(12)))],
         annualBenefitBase |->
             IF bump THEN Mul(annualBenefitBase, OnePlusPct(colaToUse))
             ELSE annualBenefitBase]

---------------------------------------------------------------------------
(* College tuition: src/src/college/tuition.ts *)

validateCollegeTuitionInput(input) ==
    LET e1 == Push(<<>>, input.startYear < 1900, "startYear",
                   "Start Year cannot be before 1900")
        e2 == Push(e1, input.birthYear < 1900, "birthYear",
                   "Birth Year cannot be before 1900")
        e3 == Push(e2, input.childBirthYear <= input.birthYear, "childBirthYear",
                   "Child cannot be older than parent")
        e4 == Push(e3, input.childCollegeFirstYear <= input.childBirthYear,
                   "childCollegeFirstYear",
                   "Child's first year of college must be later than birth year")
        e5 == Push(e4, input.childCollegeLastYear < input.childCollegeFirstYear,
                   "childCollegeLastYear",
                   "Child's last year of college must be later than first year")
        e6 == Push(e5, Le(input.initialBalance, Z(0)), "initialBalance",
                   "Initial balance cannot be negative")
        e7 == Push(e6, Lt(input.estimatedYield, Z(-100)), "estimatedYield",
                   "Estimated yield cannot be less than -100%")
        e8 == Push(e7, Le(input.estimatedFirstYearTuition, Z(0)),
                   "estimatedFirstYearTuition",
                   "Estimated first year tuition must be greater than zero")
        e9 == Push(e8, Lt(input.estimatedInflationRate, Z(-100)),
                   "estimatedInflationRate",
                   "Estimated tuition inflation cannot be less than -100%")
        e10 == Push(e9, input.yearsToProject <= 0, "yearsToProject",
                    "Must project at least 1 year")
    IN  e10

\* one pass of the loop (tuition.ts lines 94-134)
CollegeTuitionPass(input, i, balance) ==
    LET year == input.startYear + i
        age == year - input.birthYear
        childAge == year - input.childBirthYear
        beginningBalance == balance
        contribution == IF year <= input.childCollegeLastYear
                        THEN input.annualContribution ELSE Z(0)
        yieldAmount == Mul(Pct(input.estimatedYield), beginningBalance)
        tuitionAmount ==
            IF year >= input.childCollegeFirstYear /\ year <= input.childCollegeLastYear
            THEN Mul(input.estimatedFirstYearTuition,
                     MathPow(OnePlusPct(input.estimatedInflationRate),
                             year - input.childCollegeFirstYear))
            ELSE Z(0)
        availableFunds == Add(Add(beginningBalance, contribution), yieldAmount)
        annualWithdraw == MathMin(tuitionAmount, availableFunds)
        balance1 == Sub(availableFunds, annualWithdraw)
    IN  [row |-> [year |-> year, age |-> age, childAge |-> childAge,
                  beginningBalance |-> beginningBalance,
                  contribution |-> contribution,
                  yieldPercent |-> input.estimatedYield,
                  tuitionAmount |-> tuitionAmount,
                  annualWithdraw |-> annualWithdraw,
                  endingBalance |-> balance1],
         balance |-> balance1]

---------------------------------------------------------------------------
(* Real estate: src/src/real-estate/property.ts *)

RealEstateEmptyOverride ==
    [monthlyRentalIncome |-> Absent, monthlyMortgage |-> Absent,
     annualPropertyTax |-> Absent, annualInsurance |-> Absent, monthlyHoaFee |-> Absent]

validateRealEstatePropertyInput(input) ==
    LET e1 == Push(<<>>, input.startYear < 1900, "startYear",
                   "Start year cannot be before 1900")
        e2 == Push(e1, Lt(input.monthlyMortgage, Z(0)), "monthlyMortgage",
                   "Monthly mortgage cannot be negative")
        e3 == Push(e2, Lt(input.annualPropertyTax, Z(0)), "annualPropertyTax",
                   "Property tax cannot be negative")
        e4 == Push(e3, Lt(input.annualInsurance, Z(0)), "annualInsurance",
                   "Insurance cannot be negative")
        e5 == Push(e4, Lt(input.propertyTaxIncreaseRate, Z(0)), "propertyTaxIncreaseRate",
                   "Property tax increase rate cannot be negative")
        e6 == Push(e5, Lt(input.insuranceIncreaseRate, Z(0)), "insuranceIncreaseRate",
                   "Insurance increase rate cannot be negative")
        e7 == Push(e6, input.yearsToProject <= 0, "yearsToProject",
                   "Must project at least 1 year")
    IN  e7

\* the `let` variables before the loop (property.ts lines 141-145)
RealEstateInitial(input) ==
    [mortgageCurrent |-> input.monthlyMortgage,
     propertyTaxCurrent |-> input.annualPropertyTax,
     insuranceCurrent |-> input.annualInsurance,
     hoaCurrent |-> Nullish(input.monthlyHoaFee, Z(0)),
     rentalIncomeCurrent |-> input.monthlyRentalIncome]

\* Object.keys(override).length > 0
RealEstateHasOverride(override) ==
    \E f \in DOMAIN override : override[f].tag # "absent"

\* one pass of the loop (property.ts lines 149-205)
RealEstatePass(input, i, a) ==
    LET year == input.startYear + i
        age == year - input.birthYear
        override == OverrideFor(input.yearOverrides, year, RealEstateEmptyOverride)
        hasOverride == RealEstateHasOverride(override)
        \* inflation, from the second year on
        tax0 == IF i > 0 THEN Mul(a.propertyTaxCurrent, OnePlusPct(input.propertyTaxIncreaseRate))
                ELSE a.propertyTaxCurrent
        ins0 == IF i > 0 THEN Mul(a.insuranceCurrent, OnePlusPct(input.insuranceIncreaseRate))
                ELSE a.insuranceCurrent
        hoa0 == IF i > 0 THEN Mul(a.hoaCurrent, OnePlusPct(input.hoaFeeIncreaseRate))
                ELSE a.hoaCurrent
        rent0 == IF i > 0 /\ IsDefined(a.rentalIncomeCurrent)
                 THEN Num(Mul(a.rentalIncomeCurrent.val,
                              OnePlusPct(Nullish(input.rentalIncomeIncreaseRate, Z(0)))))
                 ELSE a.rentalIncomeCurrent
        \* overrides
        mortgage == IF year > input.mortgageEndYear THEN Z(0)
                    ELSE Nullish(override.monthlyMortgage, a.mortgageCurrent)
        tax == Nullish(override.annualPropertyTax, tax0)
        ins == Nullish(override.annualInsurance, ins0)
        hoa == Nullish(override.monthlyHoaFee, hoa0)
        rent1 == IF IsDefined(override.monthlyRentalIncome)
                 THEN override.monthlyRentalIncome ELSE rent0
        rent == IF IsDefined(rent1) THEN MathRound(rent1.val) ELSE Z(0)
        totalAnnualExpense ==
            Add(Add(Add(tax, ins), Mul(hoa, Z(12))), Mul(mortgage, Z(12)))
    IN  [row |-> [year |-> year, age |-> age,
                  monthlyMortgage |-> mortgage,
                  annualPropertyTax |-> MathRound(tax),
                  annualInsurance |-> MathRound(ins),
                  monthlyHoaFee |-> MathRound(hoa),
                  monthlyRentalIncome |-> rent,
                  monthlyIncome |-> rent,
                  annualIncome |-> Mul(rent, Z(12)),
                  monthlyExpense |-> MathRound(Div(totalAnnualExpense, Z(12))),
                  annualExpense |-> MathRound(totalAnnualExpense),
                  hasOverride |-> hasOverride],
         acc |-> [mortgageCurrent |-> mortgage, propertyTaxCurrent |-> tax,
                  insuranceCurrent |-> ins, hoaCurrent |-> hoa,
                  rentalIncomeCurrent |-> Num(rent)]]

---------------------------------------------------------------------------
(* Retirement savings with overrides: src/unnamed/part_006 *)

RetirementSavingsEmptyOverride ==
    [contribution |-> Absent, yieldPercent |-> Absent,
     withdrawRate |-> Absent, annualWithdraw |-> Absent]

validateRetirementSavingsInput(input) ==
    LET e1 == Push(<<>>, input.startYear < 1900, "startYear",
                   "Start Year cannot be before 1900")
        e2 == Push(e1, input.birthYear < 1900, "birthYear",
                   "Birth Year cannot be before 1900")
        e3 == Push(e2, Lt(input.initialBalance, Z(0)), "initialBalance",
                   "Initial balance cannot be negative")
        e4 == Push(e3, Lt(input.initialContribution, Z(0)), "initialContribution",
                   "Contribution cannot be negative")
        e5 == Push(e4, Lt(input.estimatedYield, Z(-100)), "estimatedYield",
                   "Estimated yield cannot be less than -100%")
        e6 == Push(e5, Lt(input.estimatedWithdrawRate, Z(0)), "estimatedWithdrawRate",
                   "Withdrawal rate cannot be negative")
        e7 == Push(e6, Lt(input.contributionIncreaseRate, Z(-100)),
                   "contributionIncreaseRate",
                   "Contribution increase rate cannot be less than -100%")
        e8 == Push(e7, input.withdrawStartAge < 0 \/ input.withdrawStartAge > 80,
                   "withdrawStartAge", "Withdraw start age must be between 0 and 80")
        e9 == Push(e8, input.yearsToProject <= 0, "yearsToProject",
                   "Must project at least 1 year")
    IN  e9

\* balance and contribution before the loop (part_006 lines 93-97)
RetirementSavingsInitialEmpty(input) ==
    [balance |-> Z(0), contribution |-> MathMax(input.initialContribution, Z(0))]
RetirementSavingsInitial(input) ==
    [balance |-> MathMax(input.initialBalance, Z(0)),
     contribution |-> MathMax(input.initialContribution, Z(0))]

RetirementSavingsHasOverride(override) ==
    IsDefined(override.contribution) \/ IsDefined(override.yieldPercent)
        \/ IsDefined(override.withdrawRate) \/ IsDefined(override.annualWithdraw)

\* one pass of the loop (part_006 lines 101-157)
\* annualWithdraw = (withdrawRate / 100) * beginningBalance (part_006 line 134)
RetirementSavingsWithdrawalCapped(withdrawRate, beginningBalance) ==
    MathMin(Mul(Pct(withdrawRate), beginningBalance), MathMax(beginningBalance, Z(0)))
RetirementSavingsWithdrawal(withdrawRate, beginningBalance) ==
    Mul(Pct(withdrawRate), beginningBalance)

RetirementSavingsPass(input, i, a) ==
    LET year == input.startYear + i
        age == year - input.birthYear
        isWithdrawing == age >= input.withdrawStartAge
        override == OverrideFor(input.yearOverrides, year, RetirementSavingsEmptyOverride)
        hasOverride == RetirementSavingsHasOverride(override)
        beginningBalance == a.balance
        contribution ==
            IF IsDefined(override.contribution)
            THEN MathMax(override.contribution.val, Z(0))
            ELSE IF i > 0
                 THEN (IF isWithdrawing THEN Z(0)
                       ELSE Mul(a.contribution, OnePlusPct(input.contributionIncreaseRate)))
                 ELSE (IF isWithdrawing THEN Z(0) ELSE a.contribution)
        yieldPercent == Nullish(override.yieldPercent, input.estimatedYield)
        yieldAmount == Mul(Pct(yieldPercent), beginningBalance)
        annualWithdraw ==
            IF ~isWithdrawing THEN Z(0)
            ELSE IF IsDefined(override.annualWithdraw)
                 THEN MathMax(override.annualWithdraw.val, Z(0))
                 ELSE RetirementSavingsWithdrawal(
                          Nullish(override.withdrawRate, input.estimatedWithdrawRate),
                          beginningBalance)
        withdrawRate ==
            IF ~isWithdrawing THEN Z(0)
            ELSE IF IsDefined(override.annualWithdraw)
                 THEN (IF Lt(Z(0), beginningBalance)
                       THEN Mul(Div(annualWithdraw, beginningBalance), Z(100))
                       ELSE Z(0))
                 ELSE Nullish(override.withdrawRate, input.estimatedWithdrawRate)
        balance1 == Sub(Add(Add(beginningBalance, yieldAmount), contribution), annualWithdraw)
    IN  [row |-> [year |-> year, age |-> age,
                  beginningBalance |-> beginningBalance,
                  contribution |-> contribution,
                  yieldPercent |-> yieldPercent,
                  withdrawRate |-> withdrawRate,
                  monthlyWithdraw |-> Div(annualWithdraw, Z(12)),
                  annualWithdraw |-> annualWithdraw,
                  endingBalance |-> balance1,
                  hasOverride |-> hasOverride],
         acc |-> [balance |-> balance1, contribution |-> contribution]]

---------------------------------------------------------------------------
(* Retirement savings, the override-free file: src/src/retirement/savings.ts *)

\* balance and contribution before the loop (savings.ts lines 36-37)
SavingsInitial(input) ==
    [balance |-> input.initialBalance, contribution |-> input.initialContribution]

\* one pass of the loop (savings.ts lines 40-66)
SavingsPass(input, i, a) ==
    LET year == input.startYear + i
        age == year - input.birthYear
        isWithdrawing == age >= input.withdrawStartAge
        contribution ==
            IF i > 0
            THEN (IF isWithdrawing THEN Z(0)
                  ELSE Mul(a.contribution, OnePlusPct(input.contributionIncreaseRate)))
            ELSE a.contribution
        annualWithdraw == IF isWithdrawing
                          THEN Mul(Pct(input.estimatedWithdrawRate), a.balance) ELSE Z(0)
        yieldAmount == Mul(Pct(input.estimatedYield), a.balance)
        beginningBalance == a.balance
        balance1 == Sub(Add(Add(a.balance, yieldAmount), contribution), annualWithdraw)
    IN  [row |-> [year |-> year, age |-> age,
                  beginningBalance |-> beginningBalance,
                  contribution |-> contribution,
                  yieldPercent |-> input.estimatedYield,
                  withdrawRate |-> IF isWithdrawing THEN input.estimatedWithdrawRate ELSE Z(0),
                  monthlyWithdraw |-> Div(annualWithdraw, Z(12)),
                  annualWithdraw |-> annualWithdraw,
                  endingBalance |-> balance1],
         acc |-> [balance |-> balance1, contribution |-> contribution]]

---------------------------------------------------------------------------
(* Mortgage amortization: src/unnamed/part_002 *)

\* a Date, as far as the code reads it: getFullYear() and getMonth() (0-11)
DateOf(year, month) == [year |-> year, month |-> month]

\* the clock when the first call is made
FirstClock == DateOf(2026, 10)

\* no call has been made before this one
NoEarlier == [made |-> FALSE]

\* new Date(year, monthIndex): a monthIndex outside 0-11 carries into the year
NewDate(year, monthIndex) == DateOf(year + (monthIndex \div 12), monthIndex % 12)

\* Date.toLocaleDateString() in the en-US form month/day/year; the day is 1
toLocaleDateString(date) == <<date.month + 1, 1, date.year>>

MortgageMonthlyRateOverTwentyFour(input) == Div(Div(input.annualRate, Z(100)), Z(24))
MortgageMonthlyRate(input) == Div(Div(input.annualRate, Z(100)), Z(12))
MortgageTotalMonths(input) == Mul(input.termYears, Z(12))

\* basePayment (part_002 lines 154-159); totalMonths is a whole number here
MortgageBasePaymentOverTwelve(input) == Div(input.loanAmount, Z(12))
MortgageBasePayment(input) ==
    LET monthlyRate == MortgageMonthlyRate(input)
        totalMonths == MortgageTotalMonths(input)
        growth == MathPow(Add(Z(1), monthlyRate), totalMonths[1] \div totalMonths[2])
    IN  IF monthlyRate = Z(0)
        THEN Div(input.loanAmount, totalMonths)
        ELSE Div(Mul(input.loanAmount, Mul(monthlyRate, growth)), Sub(growth, Z(1)))

\* startDate = new Date() when the caller gives none (part_002 line 147)
MortgageStartDate(input, clock) ==
    IF IsDefined(input.startDate) THEN input.startDate.val ELSE clock

\* balance > 0.01 && i <= totalMonths
MortgageLoopCondWithoutBalance(input, i, balance) ==
    Le(Z(i), MortgageTotalMonths(input))
MortgageLoopCond(input, i, balance) ==
    Lt(Q(1, 100), balance) /\ Le(Z(i), MortgageTotalMonths(input))

\* one pass of the loop (part_002 lines 164-181)
MortgagePass(input, startDate, i, balance) ==
    LET extraPayment == Nullish(input.extraPayment, Z(0))
        interest == Mul(balance, MortgageMonthlyRate(input))
        principal == MathMin(Sub(Add(MortgageBasePayment(input), extraPayment), interest),
                             balance)
        balance1 == Sub(balance, principal)
        paymentDate == NewDate(startDate.year, startDate.month + i)
    IN  [row |-> [month |-> i,
                  date |-> toLocaleDateString(paymentDate),
                  payment |-> Add(principal, interest),
                  principal |-> principal,
                  interest |-> interest,
                  balance |-> MathMax(balance1, Z(0))],
         balance |-> balance1]

\* groupByYear (part_002 lines 188-219)

\* Math.floor((row.month - 1) / 12) + 1
LoanYearFromMonth(row) == row.month \div 12 + 1
LoanYear(row) == (row.month - 1) \div 12 + 1

\* the callback of rows.forEach: the yearlyMap after one monthly row
GroupRow(yearlyMap, row) ==
    LET year == LoanYear(row)
        entered == IF year \in DOMAIN yearlyMap
                   THEN yearlyMap[year]
                   ELSE [year |-> year, month |-> row.month, date |-> row.date,
                         payment |-> Z(0), principal |-> Z(0), interest |-> Z(0),
                         balance |-> row.balance]
        summed == [entered EXCEPT !.payment = Add(@, row.payment),
                                  !.principal = Add(@, row.principal),
                                  !.interest = Add(@, row.interest),
                                  !.month = row.month,
                                  !.date = row.date,
                                  !.balance = row.balance]
    IN  [y \in DOMAIN yearlyMap \cup {year} |->
            IF y = year THEN summed ELSE yearlyMap[y]]

\* rows.forEach, from row k on
RECURSIVE ForEachRow(_, _, _)
ForEachRow(yearlyMap, monthly, k) ==
    IF k > Len(monthly) THEN yearlyMap
    ELSE ForEachRow(GroupRow(yearlyMap, monthly[k]), monthly, k + 1)

\* Object.values of an object with integer keys: the values by ascending key
RECURSIVE ObjectValues(_)
ObjectValues(object) ==
    IF DOMAIN object = {} THEN <<>>
    ELSE LET last == CHOOSE y \in DOMAIN object : \A z \in DOMAIN object : z <= y
         IN  Append(ObjectValues([y \in DOMAIN object \ {last} |-> object[y]]),
                    object[last])

groupByYear(monthly) == ObjectValues(ForEachRow(<<>>, monthly, 1))

---------------------------------------------------------------------------
(* The drivers as a state machine *)

\* if (errors.length > 0) { ...; throw err }
ThrowsOnSeveral(errs) == Len(errs) > 1
Throws(errs) == Len(errs) > 0

\* the loop conditions: year < endYear (fers.ts 114, military.ts 92), i < yearsToProject
FersLoopCond(input, year) == year < input.startYear + input.yearsToProject
MilitaryLoopCond(input, year) == year < input.startYear + input.yearsToProject
IndexLoopCondInclusive(input, i) == i <= input.yearsToProject
IndexLoopCond(input, i) == i < input.yearsToProject

NoAcc == [idle |-> TRUE]


\* calculateFersPensionProjection / ...WithOverrides: entry, validation, lines 89-112
Call_Fers ==
    /\ engine = "fers" /\ pc = "call"
    /\ LET input == IF entry = "plain" THEN WithoutOverrides(arg) ELSE arg
           errs == validateFersPensionInput(input)
       IN  /\ inp' = input
           /\ errors' = errs
           /\ IF Throws(errs)
              THEN pc' = "thrown" /\ thrown' = errs /\ acc' = acc
              ELSE /\ pc' = "loop" /\ thrown' = thrown
                   /\ acc' = [year |-> input.startYear, pension |-> FersBasePension(input)]
    /\ UNCHANGED <<now, earlier, engine, entry, arg, rows>>

Iterate_Fers ==
    /\ engine = "fers" /\ pc = "loop"
    /\ FersLoopCond(inp, acc.year)
    /\ LET p == FersPass(inp, acc.year, acc.pension)
       IN  /\ rows' = Append(rows, p.row)
           /\ acc' = [year |-> acc.year + 1, pension |-> p.pension]
    /\ UNCHANGED <<now, earlier, engine, entry, arg, inp, pc, errors, thrown>>

Return_Fers ==
    /\ engine = "fers" /\ pc = "loop"
    /\ ~FersLoopCond(inp, acc.year)
    /\ pc' = "returned"
    /\ UNCHANGED <<now, earlier, engine, entry, arg, inp, acc, rows, errors, thrown>>

\* calculateMilitaryPensionProjection / ...WithOverrides
Call_Military ==
    /\ engine = "military" /\ pc = "call"
    /\ LET input == IF entry = "plain" THEN WithoutOverrides(arg) ELSE arg
           errs == validateMilitaryPensionInput(input)
       IN  /\ inp' = input
           /\ errors' = errs
           /\ IF Throws(errs)
              THEN pc' = "thrown" /\ thrown' = errs /\ acc' = acc
              ELSE /\ pc' = "loop" /\ thrown' = thrown
                   /\ acc' = [year |-> input.startYear,
                              monthlyPension |-> MilitaryBasePension(input)]
    /\ UNCHANGED <<now, earlier, engine, entry, arg, rows>>

Iterate_Military ==
    /\ engine = "military" /\ pc = "loop"
    /\ MilitaryLoopCond(inp, acc.year)
    /\ LET p == MilitaryPass(inp, acc.year, acc.monthlyPension)
       IN  /\ rows' = Append(rows, p.row)
           /\ acc' = [year |-> acc.year + 1, monthlyPension |-> p.monthlyPension]
    /\ UNCHANGED <<now, earlier, engine, entry, arg, inp, pc, errors, thrown>>

Return_Military ==
    /\ engine = "military" /\ pc = "loop"
    /\ ~MilitaryLoopCond(inp, acc.year)
    /\ pc' = "returned"
    /\ UNCHANGED <<now, earlier, engine, entry, arg, inp, acc, rows, errors, thrown>>

\* calculateSocialSecurityBenefitProjection / ...WithOverrides
Call_SocialSecurity ==
    /\ engine = "socialSecurity" /\ pc = "call"
    /\ LET input == IF entry = "plain" THEN WithoutOverrides(arg) ELSE arg
           errs == validateSocialSecurityBenefitInput(input)
       IN  /\ inp' = input
           /\ errors' = errs
           /\ IF Throws(errs)
              THEN pc' = "thrown" /\ thrown' = errs /\ acc' = acc
              ELSE /\ pc' = "loop" /\ thrown' = thrown
                   /\ acc' = [i |-> 0, annualBenefitBase |-> SocialSecurityBase(input)]
    /\ UNCHANGED <<now, earlier, engine, entry, arg, rows>>

Iterate_SocialSecurity ==
    /\ engine = "socialSecurity" /\ pc = "loop"
    /\ IndexLoopCond(inp, acc.i)
    /\ LET p == SocialSecurityPass(inp, acc.i, acc.annualBenefitBase)
       IN  /\ rows' = Append(rows, p.row)
           /\ acc' = [i |-> acc.i + 1, annualBenefitBase |-> p.annualBenefitBase]
    /\ UNCHANGED <<now, earlier, engine, entry, arg, inp, pc, errors, thrown>>

Return_SocialSecurity ==
    /\ engine = "socialSecurity" /\ pc = "loop"
    /\ ~IndexLoopCond(inp, acc.i)
    /\ pc' = "returned"
    /\ UNCHANGED <<now, earlier, engine, entry, arg, inp, acc, rows, errors, thrown>>

\* calculateCollegeTuitionProjection
Call_CollegeTuition ==
    /\ engine = "collegeTuition" /\ pc = "call"
    /\ LET errs == validateCollegeTuitionInput(arg)
       IN  /\ inp' = arg
           /\ errors' = errs
           /\ IF Throws(errs)
              THEN pc' = "thrown" /\ thrown' = errs /\ acc' = acc
              ELSE /\ pc' = "loop" /\ thrown' = thrown
                   /\ acc' = [i |-> 0, balance |-> arg.initialBalance]
    /\ UNCHANGED <<now, earlier, engine, entry, arg, rows>>

Iterate_CollegeTuition ==
    /\ engine = "collegeTuition" /\ pc = "loop"
    /\ IndexLoopCond(inp, acc.i)
    /\ LET p == CollegeTuitionPass(inp, acc.i, acc.balance)
       IN  /\ rows' = Append(rows, p.row)
           /\ acc' = [i |-> acc.i + 1, balance |-> p.balance]
    /\ UNCHANGED <<now, earlier, engine, entry, arg, inp, pc, errors, thrown>>

Return_CollegeTuition ==
    /\ engine = "collegeTuition" /\ pc = "loop"
    /\ ~IndexLoopCond(inp, acc.i)
    /\ pc' = "returned"
    /\ UNCHANGED <<now, earlier, engine, entry, arg, inp, acc, rows, errors, thrown>>

\* calculateRealEstatePropertyProjection / ...WithOverrides
Call_RealEstate ==
    /\ engine = "realEstate" /\ pc = "call"
    /\ LET input == IF entry = "plain" THEN WithoutOverrides(arg) ELSE arg
           errs == validateRealEstatePropertyInput(input)
       IN  /\ inp' = input
           /\ errors' = errs
           /\ IF Throws(errs)
              THEN pc' = "thrown" /\ thrown' = errs /\ acc' = acc
              ELSE /\ pc' = "loop" /\ thrown' = thrown
                   /\ acc' = [i |-> 0, cur |-> RealEstateInitial(input)]
    /\ UNCHANGED <<now, earlier, engine, entry, arg, rows>>

Iterate_RealEstate ==
    /\ engine = "realEstate" /\ pc = "loop"
    /\ IndexLoopCond(inp, acc.i)
    /\ LET p == RealEstatePass(inp, acc.i, acc.cur)
       IN  /\ rows' = Append(rows, p.row)
           /\ acc' = [i |-> acc.i + 1, cur |-> p.acc]
    /\ UNCHANGED <<now, earlier, engine, entry, arg, inp, pc, errors, thrown>>

Return_RealEstate ==
    /\ engine = "realEstate" /\ pc = "loop"
    /\ ~IndexLoopCond(inp, acc.i)
    /\ pc' = "returned"
    /\ UNCHANGED <<now, earlier, engine, entry, arg, inp, acc, rows, errors, thrown>>

\* calculateRetirementSavingsProjection / ...WithOverrides of part_006
Call_RetirementSavings ==
    /\ engine = "retirementSavings" /\ pc = "call"
    /\ LET input == IF entry = "plain" THEN WithoutOverrides(arg) ELSE arg
           errs == validateRetirementSavingsInput(input)
       IN  /\ inp' = input
           /\ errors' = errs
           /\ IF Throws(errs)
              THEN pc' = "thrown" /\ thrown' = errs /\ acc' = acc
              ELSE /\ pc' = "loop" /\ thrown' = thrown
                   /\ acc' = [i |-> 0, cur |-> RetirementSavingsInitial(input)]
    /\ UNCHANGED <<now, earlier, engine, entry, arg, rows>>

Iterate_RetirementSavings ==
    /\ engine = "retirementSavings" /\ pc = "loop"
    /\ IndexLoopCond(inp, acc.i)
    /\ LET p == RetirementSavingsPass(inp, acc.i, acc.cur)
       IN  /\ rows' = Append(rows, p.row)
           /\ acc' = [i |-> acc.i + 1, cur |-> p.acc]
    /\ UNCHANGED <<now, earlier, engine, entry, arg, inp, pc, errors, thrown>>

Return_RetirementSavings ==
    /\ engine = "retirementSavings" /\ pc = "loop"
    /\ ~IndexLoopCond(inp, acc.i)
    /\ pc' = "returned"
    /\ UNCHANGED <<now, earlier, engine, entry, arg, inp, acc, rows, errors, thrown>>

\* calculateRetirementSavingsProjection of savings.ts: no validation, never throws
Call_Savings ==
    /\ engine = "savings" /\ pc = "call"
    /\ inp' = arg
    /\ pc' = "loop"
    /\ acc' = [i |-> 0, cur |-> SavingsInitial(arg)]
    /\ UNCHANGED <<now, earlier, engine, entry, arg, rows, errors, thrown>>

Iterate_Savings ==
    /\ engine = "savings" /\ pc = "loop"
    /\ IndexLoopCond(inp, acc.i)
    /\ LET p == SavingsPass(inp, acc.i, acc.cur)
       IN  /\ rows' = Append(rows, p.row)
           /\ acc' = [i |-> acc.i + 1, cur |-> p.acc]
    /\ UNCHANGED <<now, earlier, engine, entry, arg, inp, pc, errors, thrown>>

Return_Savings ==
    /\ engine = "savings" /\ pc = "loop"
    /\ ~IndexLoopCond(inp, acc.i)
    /\ pc' = "returned"
    /\ UNCHANGED <<now, earlier, engine, entry, arg, inp, acc, rows, errors, thrown>>

\* calculateMortgageAmortization (part_002 lines 140-185): no validation
Call_Mortgage ==
    /\ engine = "mortgage" /\ pc = "call"
    /\ inp' = arg
    /\ acc' = [i |-> 1, balance |-> arg.loanAmount,
               startDate |-> MortgageStartDate(arg, now)]
    /\ pc' = "loop"
    /\ UNCHANGED <<now, earlier, engine, entry, arg, rows, errors, thrown>>

Iterate_Mortgage ==
    /\ engine = "mortgage" /\ pc = "loop"
    /\ MortgageLoopCond(inp, acc.i, acc.balance)
    /\ LET p == MortgagePass(inp, acc.startDate, acc.i, acc.balance)
       IN  /\ rows' = Append(rows, p.row)
           /\ acc' = [acc EXCEPT !.i = acc.i + 1, !.balance = p.balance]
    /\ UNCHANGED <<now, earlier, engine, entry, arg, inp, pc, errors, thrown>>

Return_Mortgage ==
    /\ engine = "mortgage" /\ pc = "loop"
    /\ ~MortgageLoopCond(inp, acc.i, acc.balance)
    /\ pc' = "returned"
    /\ UNCHANGED <<now, earlier, engine, entry, arg, inp, acc, rows, errors, thrown>>

\* groupByYear applied to the rows the call returned
Call_groupByYear ==
    /\ engine = "mortgage" /\ pc = "returned"
    /\ acc' = [yearly |-> groupByYear(rows)]
    /\ pc' = "grouped"
    /\ UNCHANGED <<now, earlier, engine, entry, arg, inp, rows, errors, thrown>>

(* The caller makes the same call again, with an equal argument, at once   *)
(* or a month later: the outcome of the first call is kept for comparison. *)
CallAgain ==
    /\ pc \in {"returned", "thrown"} /\ ~earlier.made
    /\ earlier' = [made |-> TRUE, pc |-> pc, rows |-> rows, thrown |-> thrown]
    /\ \E months \in {0, 1} : now' = NewDate(now.year, now.month + months)
    /\ pc' = "call"
    /\ inp' = arg
    /\ acc' = NoAcc
    /\ rows' = <<>>
    /\ errors' = <<>>
    /\ thrown' = <<>>
    /\ UNCHANGED <<engine, entry, arg>>

---------------------------------------------------------------------------
(* The validators alone, as pure functions applied to an input *)

ValidateInput_Fers ==
    /\ engine = "fers" /\ pc = "validate"
    /\ errors' = validateFersPensionInput(arg)
    /\ pc' = "validated"
    /\ UNCHANGED <<now, earlier, engine, entry, arg, inp, acc, rows, thrown>>

ValidateInput_Military ==
    /\ engine = "military" /\ pc = "validate"
    /\ errors' = validateMilitaryPensionInput(arg)
    /\ pc' = "validated"
    /\ UNCHANGED <<now, earlier, engine, entry, arg, inp, acc, rows, thrown>>

ValidateInput_SocialSecurity ==
    /\ engine = "socialSecurity" /\ pc = "validate"
    /\ errors' = validateSocialSecurityBenefitInput(arg)
    /\ pc' = "validated"
    /\ UNCHANGED <<now, earlier, engine, entry, arg, inp, acc, rows, thrown>>

ValidateInput_CollegeTuition ==
    /\ engine = "collegeTuition" /\ pc = "validate"
    /\ errors' = validateCollegeTuitionInput(arg)
    /\ pc' = "validated"
    /\ UNCHANGED <<now, earlier, engine, entry, arg, inp, acc, rows, thrown>>

ValidateInput_RealEstate ==
    /\ engine = "realEstate" /\ pc = "validate"
    /\ errors' = validateRealEstatePropertyInput(arg)
    /\ pc' = "validated"
    /\ UNCHANGED <<now, earlier, engine, entry, arg, inp, acc, rows, thrown>>

ValidateInput_RetirementSavings ==
    /\ engine = "retirementSavings" /\ pc = "validate"
    /\ errors' = validateRetirementSavingsInput(arg)
    /\ pc' = "validated"
    /\ UNCHANGED <<now, earlier, engine, entry, arg, inp, acc, rows, thrown>>

---------------------------------------------------------------------------
(* Inputs *)

\* the longest projection horizon explored
MaxYears == 4

Horizon == 2025 .. (2025 + MaxYears - 1)

\* override maps with at most one year set
SingleYearOverrides(years, records) ==
    {EmptyOverrides} \cup {[y \in {yy} |-> r] : yy \in years, r \in records}

FersOverrideRecords ==
    { FersEmptyOverride,
      [salary |-> Undefined, salaryGrowthRate |-> Undefined, colaApplied |-> Undefined],
      [FersEmptyOverride EXCEPT !.salary = Num(Z(0))],
      [FersEmptyOverride EXCEPT !.salary = Num(Z(200))],
      [FersEmptyOverride EXCEPT !.salaryGrowthRate = Num(Z(0))],
      [FersEmptyOverride EXCEPT !.salaryGrowthRate = Num(Z(100))],
      [FersEmptyOverride EXCEPT !.salaryGrowthRate = Num(Q(2469, 200))],
      [FersEmptyOverride EXCEPT !.colaApplied = Num(Z(0))],
      [FersEmptyOverride EXCEPT !.colaApplied = Num(Z(20))],
      [salary |-> Num(Z(200)), salaryGrowthRate |-> Num(Z(100)), colaApplied |-> Num(Z(20))] }

FersProjectionInputs ==
    { [startYear |-> 2025, birthYear |-> 1963, serviceStartYear |-> 1985,
       serviceEndYear |-> se, retirementAge |-> ra, currentSalary |-> Z(100),
       salaryGrowthRate |-> Z(50), high3Salary |-> Z(120), colaPercent |-> Z(10),
       pensionMultiplier |-> Z(1), yearsToProject |-> n, retirementType |-> t,
       survivorBenefitReduction |-> Z(0), yearOverrides |-> o] :
      se \in {2010, 2026}, ra \in {57, 62, 64, 66, 67}, n \in 1 .. MaxYears,
      t \in {"regular", "deferred"},
      o \in SingleYearOverrides(Horizon, FersOverrideRecords) }

FersRejectedInputs ==
    { [startYear |-> 2025, birthYear |-> 1963, serviceStartYear |-> ss,
       serviceEndYear |-> 2010, retirementAge |-> ra, currentSalary |-> cs,
       salaryGrowthRate |-> Z(50), high3Salary |-> Z(120), colaPercent |-> Z(10),
       pensionMultiplier |-> Z(1), yearsToProject |-> n, retirementType |-> t,
       survivorBenefitReduction |-> Z(0), yearOverrides |-> EmptyOverrides] :
      ss \in {1970, 1985}, ra \in {39, 62}, cs \in {Z(0), Z(100)}, n \in {0, 1},
      t \in {"regular", "mra10"} }

FersValidationInputs ==
    { [startYear |-> sy, birthYear |-> by, serviceStartYear |-> ss,
       serviceEndYear |-> se, retirementAge |-> ra, currentSalary |-> cs,
       salaryGrowthRate |-> g, high3Salary |-> h, colaPercent |-> Z(10),
       pensionMultiplier |-> m, yearsToProject |-> n, retirementType |-> t,
       survivorBenefitReduction |-> sb, yearOverrides |-> EmptyOverrides] :
      sy \in {1899, 2025}, by \in {1899, 1963}, ss \in {1899, 1985, 2000},
      se \in {1899, 2010}, ra \in {39, 57, 62}, cs \in {Z(0), Z(100)},
      g \in {Z(-101), Z(0)}, h \in {Z(0), Z(120)}, m \in {Z(1), Q(17, 10)},
      n \in {0, 2}, t \in {"regular", "mra10", "early", "deferred"},
      sb \in {Z(-1), Z(0)} }

MilitaryOverrideRecords ==
    { MilitaryEmptyOverride, [colaApplied |-> Undefined],
      [colaApplied |-> Num(Z(0))], [colaApplied |-> Num(Z(20))] }

MilitaryProjectionInputs ==
    { [startYear |-> 2025, birthYear |-> 1980, serviceStartYear |-> 2000,
       serviceEndYear |-> se, high3Salary |-> Z(100), colaPercent |-> Z(10),
       yearsToProject |-> n, retirementType |-> t, yearOverrides |-> o] :
      se \in {2023, 2025, 2026}, n \in 1 .. MaxYears, t \in {"high3", "brs"},
      o \in SingleYearOverrides({2024} \cup Horizon, MilitaryOverrideRecords) }

MilitaryValidationInputs ==
    { [startYear |-> sy, birthYear |-> by, serviceStartYear |-> ss,
       serviceEndYear |-> se, high3Salary |-> h, colaPercent |-> Z(10),
       yearsToProject |-> n, retirementType |-> "high3",
       yearOverrides |-> EmptyOverrides] :
      sy \in {1899, 2025}, by \in {1899, 1980}, ss \in {1899, 1990, 2000},
      se \in {1899, 2010, 2022}, h \in {Z(0), Z(100)}, n \in {0, 2} }

SocialSecurityOverrideRecords ==
    { SocialSecurityEmptyOverride, [colaApplied |-> Undefined],
      [colaApplied |-> Num(Z(0))], [colaApplied |-> Num(Z(20))] }

SocialSecurityProjectionInputs ==
    { [startYear |-> 2025, birthYear |-> 1960, claimingAge |-> ca,
       averageIncome |-> Z(12000), averageCOLA |-> Z(10), yearsToProject |-> n,
       yearOverrides |-> o] :
      ca \in {62, 65, 67}, n \in 1 .. MaxYears,
      o \in SingleYearOverrides(Horizon, SocialSecurityOverrideRecords) }

SocialSecurityValidationInputs ==
    { [startYear |-> sy, birthYear |-> by, claimingAge |-> ca,
       averageIncome |-> ai, averageCOLA |-> c, yearsToProject |-> n,
       yearOverrides |-> EmptyOverrides] :
      sy \in {1899, 2025}, by \in {1899, 1960}, ca \in {61, 62},
      ai \in {Z(0), Z(12000)}, c \in {Z(-1), Z(10)}, n \in {0, 2} }

CollegeTuitionProjectionInputs ==
    { [startYear |-> 2025, birthYear |-> 1980, childBirthYear |-> 2008,
       childCollegeFirstYear |-> f, childCollegeLastYear |-> l,
       initialBalance |-> b, annualContribution |-> c, estimatedYield |-> y,
       estimatedFirstYearTuition |-> Z(500), estimatedInflationRate |-> Z(10),
       yearsToProject |-> n] :
      f \in {2025, 2026}, l \in {2026, 2027}, b \in {Z(100), Z(1000)},
      c \in {Z(0), Z(50), Z(-2000)}, y \in {Z(0), Z(10)}, n \in 0 .. MaxYears }

CollegeTuitionValidationInputs ==
    { [startYear |-> sy, birthYear |-> by, childBirthYear |-> cb,
       childCollegeFirstYear |-> f, childCollegeLastYear |-> l,
       initialBalance |-> b, annualContribution |-> Z(50), estimatedYield |-> y,
       estimatedFirstYearTuition |-> t, estimatedInflationRate |-> r,
       yearsToProject |-> n] :
      sy \in {1899, 2025}, by \in {1899, 1980}, cb \in {1980, 2008},
      f \in {2008, 2026}, l \in {2025, 2027}, b \in {Z(0), Z(1000)},
      y \in {Z(-101), Z(10)}, t \in {Z(0), Z(500)}, r \in {Z(-101), Z(10)},
      n \in {0, 2} }

RealEstateOverrideRecords ==
    { RealEstateEmptyOverride,
      [RealEstateEmptyOverride EXCEPT !.annualPropertyTax = Undefined],
      [RealEstateEmptyOverride EXCEPT !.monthlyRentalIncome = Num(Z(0))],
      [RealEstateEmptyOverride EXCEPT !.monthlyRentalIncome = Num(Q(601, 2))],
      [RealEstateEmptyOverride EXCEPT !.monthlyMortgage = Num(Z(0))],
      [RealEstateEmptyOverride EXCEPT !.monthlyMortgage = Num(Z(150))],
      [RealEstateEmptyOverride EXCEPT !.annualPropertyTax = Num(Z(0))],
      [RealEstateEmptyOverride EXCEPT !.annualPropertyTax = Num(Q(4001, 2))],
      [RealEstateEmptyOverride EXCEPT !.annualInsurance = Num(Z(0))],
      [RealEstateEmptyOverride EXCEPT !.annualInsurance = Num(Z(700))],
      [RealEstateEmptyOverride EXCEPT !.monthlyHoaFee = Num(Z(0))],
      [RealEstateEmptyOverride EXCEPT !.monthlyHoaFee = Num(Z(80))] }

RealEstateProjectionInputs ==
    { [startYear |-> 2025, birthYear |-> 1980, propertyType |-> "rental",
       monthlyMortgage |-> Z(100), mortgageEndYear |-> 2026,
       annualPropertyTax |-> Z(1000), propertyTaxIncreaseRate |-> Z(10),
       annualInsurance |-> Z(500), insuranceIncreaseRate |-> Z(10),
       monthlyHoaFee |-> Num(h), hoaFeeIncreaseRate |-> Z(10),
       monthlyRentalIncome |-> r, rentalIncomeIncreaseRate |-> Num(Z(10)),
       yearsToProject |-> n, yearOverrides |-> o] :
      h \in {Z(50), Z(5)}, r \in {Undefined, Num(Z(200)), Num(Z(5))},
      n \in 1 .. MaxYears,
      o \in SingleYearOverrides(Horizon, RealEstateOverrideRecords) }

RealEstateValidationInputs ==
    { [startYear |-> sy, birthYear |-> 1980, propertyType |-> "residence",
       monthlyMortgage |-> m, mortgageEndYear |-> 2026,
       annualPropertyTax |-> t, propertyTaxIncreaseRate |-> tr,
       annualInsurance |-> a, insuranceIncreaseRate |-> ar,
       monthlyHoaFee |-> Undefined, hoaFeeIncreaseRate |-> Z(0),
       monthlyRentalIncome |-> Undefined, rentalIncomeIncreaseRate |-> Undefined,
       yearsToProject |-> n, yearOverrides |-> EmptyOverrides] :
      sy \in {1899, 2025}, m \in {Z(-1), Z(100)}, t \in {Z(-1), Z(1000)},
      a \in {Z(-1), Z(500)}, tr \in {Z(-1), Z(10)}, ar \in {Z(-1), Z(10)},
      n \in {0, 2} }

RetirementSavingsOverrideRecords ==
    { RetirementSavingsEmptyOverride,
      [contribution |-> Undefined, yieldPercent |-> Undefined,
       withdrawRate |-> Undefined, annualWithdraw |-> Undefined],
      [RetirementSavingsEmptyOverride EXCEPT !.contribution = Num(Z(0))],
      [RetirementSavingsEmptyOverride EXCEPT !.contribution = Num(Z(500))],
      [RetirementSavingsEmptyOverride EXCEPT !.contribution = Num(Z(-50))],
      [RetirementSavingsEmptyOverride EXCEPT !.yieldPercent = Num(Z(0))],
      [RetirementSavingsEmptyOverride EXCEPT !.yieldPercent = Num(Z(20))],
      [RetirementSavingsEmptyOverride EXCEPT !.withdrawRate = Num(Z(0))],
      [RetirementSavingsEmptyOverride EXCEPT !.withdrawRate = Num(Z(50))],
      [RetirementSavingsEmptyOverride EXCEPT !.annualWithdraw = Num(Z(0))],
      [RetirementSavingsEmptyOverride EXCEPT !.annualWithdraw = Num(Z(300))],
      [RetirementSavingsEmptyOverride EXCEPT !.annualWithdraw = Num(Z(-10))],
      [RetirementSavingsEmptyOverride EXCEPT !.withdrawRate = Num(Z(0)),
                                             !.annualWithdraw = Num(Z(300))] }

RetirementSavingsProjectionInputs ==
    { [startYear |-> 2025, birthYear |-> 1963, initialBalance |-> Z(1000),
       initialContribution |-> Z(100), estimatedYield |-> Z(10),
       estimatedWithdrawRate |-> Z(20), contributionIncreaseRate |-> Z(10),
       withdrawStartAge |-> w, yearsToProject |-> n, yearOverrides |-> o] :
      w \in {60, 63, 64}, n \in 1 .. MaxYears,
      o \in SingleYearOverrides(Horizon, RetirementSavingsOverrideRecords) }

\* also the inputs the tests of retirement.test.ts call it with: negative amounts
\* withdrawal rates above 100 percent, which the validator accepts
RetirementSavingsOverdrawnInputs ==
    { [startYear |-> 2025, birthYear |-> 1963, initialBalance |-> Z(1000),
       initialContribution |-> Z(100), estimatedYield |-> Z(10),
       estimatedWithdrawRate |-> wr, contributionIncreaseRate |-> Z(10),
       withdrawStartAge |-> w, yearsToProject |-> n, yearOverrides |-> EmptyOverrides] :
      wr \in {Z(100), Z(200)}, w \in {60, 63}, n \in 1 .. MaxYears }

SavingsInputs ==
    { [startYear |-> 2025, birthYear |-> 1963, initialBalance |-> b,
       initialContribution |-> c, estimatedYield |-> Z(10),
       estimatedWithdrawRate |-> wr, contributionIncreaseRate |-> Z(10),
       withdrawStartAge |-> w, yearsToProject |-> n, yearOverrides |-> EmptyOverrides] :
      b \in {Z(-1000), Z(1000)}, c \in {Z(-50), Z(100)}, wr \in {Z(-20), Z(20)},
      w \in {60, 63, 64}, n \in 0 .. MaxYears }

RetirementSavingsValidationInputs ==
    { [startYear |-> sy, birthYear |-> by, initialBalance |-> b,
       initialContribution |-> c, estimatedYield |-> y,
       estimatedWithdrawRate |-> wr, contributionIncreaseRate |-> ir,
       withdrawStartAge |-> w, yearsToProject |-> n, yearOverrides |-> EmptyOverrides] :
      sy \in {1899, 2025}, by \in {1899, 1963}, b \in {Z(-1000), Z(1000)},
      c \in {Z(-50), Z(100)}, y \in {Z(-101), Z(10)}, wr \in {Z(-20), Z(20)},
      ir \in {Z(-101), Z(10)}, w \in {-1, 60, 81}, n \in {0, 2} }

Entries == {"plain", "withOverrides"}

Calls(e, entries, inputs) ==
    {[engine |-> e, entry |-> en, arg |-> a] : en \in entries, a \in inputs}

ProjectionCalls ==
    Calls("fers", Entries, FersProjectionInputs \cup FersRejectedInputs)
    \cup Calls("military", Entries, MilitaryProjectionInputs)
    \cup Calls("socialSecurity", Entries, SocialSecurityProjectionInputs)
    \cup Calls("collegeTuition", {"plain"}, CollegeTuitionProjectionInputs)
    \cup Calls("realEstate", Entries, RealEstateProjectionInputs)
    \cup Calls("retirementSavings", Entries,
               RetirementSavingsProjectionInputs \cup SavingsInputs
               \cup RetirementSavingsOverdrawnInputs)
    \cup Calls("savings", {"plain"}, SavingsInputs \cup RetirementSavingsOverdrawnInputs)

ValidationCalls ==
    Calls("fers", {"plain"}, FersValidationInputs)
    \cup Calls("military", {"plain"}, MilitaryValidationInputs)
    \cup Calls("socialSecurity", {"plain"}, SocialSecurityValidationInputs)
    \cup Calls("collegeTuition", {"plain"}, CollegeTuitionValidationInputs)
    \cup Calls("realEstate", {"plain"}, RealEstateValidationInputs)
    \cup Calls("retirementSavings", {"plain"}, RetirementSavingsValidationInputs)

---------------------------------------------------------------------------
(* Specifications *)

InitWith(calls, start) ==
    /\ \E c \in calls : engine = c.engine /\ entry = c.entry /\ arg = c.arg /\ inp = c.arg
    /\ acc = NoAcc
    /\ rows = <<>>
    /\ pc = start
    /\ errors = <<>>
    /\ thrown = <<>>
    /\ now = FirstClock
    /\ earlier = NoEarlier

Init == InitWith(ProjectionCalls, "call")

Next ==
    \/ Call_Fers \/ Iterate_Fers \/ Return_Fers
    \/ Call_Military \/ Iterate_Military \/ Return_Military
    \/ Call_SocialSecurity \/ Iterate_SocialSecurity \/ Return_SocialSecurity
    \/ Call_CollegeTuition \/ Iterate_CollegeTuition \/ Return_CollegeTuition
    \/ Call_RealEstate \/ Iterate_RealEstate \/ Return_RealEstate
    \/ Call_RetirementSavings \/ Iterate_RetirementSavings \/ Return_RetirementSavings
    \/ Call_Savings \/ Iterate_Savings \/ Return_Savings

Spec == Init /\ [][Next]_vars

InitValidate == InitWith(ValidationCalls, "validate")

NextValidate ==
    \/ ValidateInput_Fers
    \/ ValidateInput_Military
    \/ ValidateInput_SocialSecurity
    \/ ValidateInput_CollegeTuition
    \/ ValidateInput_RealEstate
    \/ ValidateInput_RetirementSavings

SpecValidate == InitValidate /\ [][NextValidate]_vars

\* FERS calls without overrides, over retirement ages on both sides of 62
FersPensionInputs ==
    { [startYear |-> 2025, birthYear |-> by, serviceStartYear |-> 1985,
       serviceEndYear |-> se, retirementAge |-> ra, currentSalary |-> Z(100),
       salaryGrowthRate |-> g, high3Salary |-> Z(120), colaPercent |-> c,
       pensionMultiplier |-> m, yearsToProject |-> n, retirementType |-> t,
       survivorBenefitReduction |-> sb, yearOverrides |-> EmptyOverrides] :
      by \in {1963, 1965}, se \in {2010, 2026}, ra \in {57, 60, 62, 64},
      g \in {Z(0), Z(50)}, c \in {Z(0), Z(10)}, m \in {Z(1), Q(17, 10)},
      n \in 1 .. MaxYears, t \in {"regular", "mra10", "early", "deferred"},
      sb \in {Z(0), Q(1, 10), Z(1)} }

InitFers == InitWith(Calls("fers", Entries, FersPensionInputs), "call")

NextFers == Call_Fers \/ Iterate_Fers \/ Return_Fers

SpecFers == InitFers /\ [][NextFers]_vars

\* mortgages of a few months: zero interest, and monthly rates of 1 and 1/2
MortgageDates == {Absent, Num(DateOf(2025, 0)), Num(DateOf(2025, 10))}

MortgageExtraPayments == {Absent, Undefined, Num(Z(0)), Num(Z(100))}

MortgageLoans(rates, terms, loans, extras) ==
    { [loanAmount |-> l, annualRate |-> r, termYears |-> t, startDate |-> d,
       extraPayment |-> x] :
      l \in loans, r \in rates, t \in terms, d \in MortgageDates, x \in extras }

MortgageInputs ==
    MortgageLoans({Z(0)}, {Z(0), Q(1, 4), Q(1, 2), Z(1)},
                  {Z(0), Q(1, 200), Z(1200), Z(-1200)},
                  MortgageExtraPayments \cup {Num(Z(-1000))})
    \cup MortgageLoans({Z(1200)}, {Q(1, 4), Q(1, 2)}, {Q(1, 200), Z(1200), Z(63)},
                       MortgageExtraPayments)
    \cup MortgageLoans({Z(600)}, {Q(1, 4)}, {Z(1200), Z(3800)},
                       MortgageExtraPayments \cup {Num(Z(-1000))})

MortgageCalls == Calls("mortgage", {"plain"}, MortgageInputs)

InitMortgage == InitWith(MortgageCalls, "call")

NextMortgage == Call_Mortgage \/ Iterate_Mortgage \/ Return_Mortgage

SpecMortgage == InitMortgage /\ [][NextMortgage]_vars

\* loans of up to two years, aggregated by loan year
GroupByYearInputs ==
    MortgageLoans({Z(0)}, {Q(1, 2), Z(1), Q(5, 4), Z(2)}, {Z(1200), Z(2400)},
                  {Absent, Num(Z(0)), Num(Z(100))})
    \cup MortgageLoans({Z(1200)}, {Q(1, 4), Q(1, 2)}, {Z(1200), Z(63)},
                       {Absent, Num(Z(100))})
    \cup MortgageLoans({Z(1200)}, {Q(5, 4)}, {Z(32767)}, {Absent})

InitGroupByYear == InitWith(Calls("mortgage", {"plain"}, GroupByYearInputs), "call")

NextGroupByYear == NextMortgage \/ Call_groupByYear

SpecGroupByYear == InitGroupByYear /\ [][NextGroupByYear]_vars

\* a call that has started runs on until it returns: the function is not
\* suspended between two steps (weak fairness of NextMortgage, which is
\* enabled exactly when the call has not returned)
FairSpecMortgage ==
    SpecMortgage /\ ([]<><<NextMortgage>>_vars \/ <>[](pc = "returned"))

\* every calculate function, called twice with the same argument
InitRepeat == InitWith(ProjectionCalls \cup MortgageCalls, "call")

NextRepeat == Next \/ NextMortgage \/ CallAgain

SpecRepeat == InitRepeat /\ [][NextRepeat]_vars

\* Social Security calls without overrides, over claiming ages around the
\* full retirement age and beyond 70
SocialSecurityBenefitInputs ==
    { [startYear |-> 2025, birthYear |-> by, claimingAge |-> ca,
       averageIncome |-> ai, averageCOLA |-> c, yearsToProject |-> n,
       yearOverrides |-> EmptyOverrides] :
      by \in {1950, 1955, 1960}, ca \in {62, 65, 66, 67, 68, 70, 72, 75},
      ai \in {Z(1), Z(12), Z(12000)}, c \in {Z(0), Z(10)}, n \in 1 .. MaxYears }

InitSocialSecurity ==
    InitWith(Calls("socialSecurity", Entries, SocialSecurityBenefitInputs), "call")

NextSocialSecurity ==
    Call_SocialSecurity \/ Iterate_SocialSecurity \/ Return_SocialSecurity

SpecSocialSecurity == InitSocialSecurity /\ [][NextSocialSecurity]_vars

\* FERS calls without overrides over the retirement types, service periods
\* and retirement ages that decide the years of service and the reduction
FersServiceInputs ==
    { [startYear |-> 2025, birthYear |-> 1963, serviceStartYear |-> ss,
       serviceEndYear |-> se, retirementAge |-> ra, currentSalary |-> Z(100),
       salaryGrowthRate |-> Z(50), high3Salary |-> Z(120), colaPercent |-> Z(10),
       pensionMultiplier |-> m, yearsToProject |-> n, retirementType |-> t,
       survivorBenefitReduction |-> sb, yearOverrides |-> EmptyOverrides] :
      ss \in {1979, 1985, 2000, 2005}, se \in {2000, 2010, 2026},
      ra \in {41, 57, 60, 62}, m \in {Z(1), Q(17, 10)}, n \in 1 .. MaxYears,
      t \in {"regular", "mra10", "early", "deferred"},
      sb \in {Z(0), Q(1, 10), Z(2)} }

InitFersService == InitWith(Calls("fers", Entries, FersServiceInputs), "call")

SpecFersService == InitFersService /\ [][NextFers]_vars

---------------------------------------------------------------------------
(* Properties *)

WithValidator == {"fers", "military", "socialSecurity", "collegeTuition",
                  "realEstate", "retirementSavings"}

ValidatorOf(e, input) ==
    CASE e = "fers" -> validateFersPensionInput(input)
      [] e = "military" -> validateMilitaryPensionInput(input)
      [] e = "socialSecurity" -> validateSocialSecurityBenefitInput(input)
      [] e = "collegeTuition" -> validateCollegeTuitionInput(input)
      [] e = "realEstate" -> validateRealEstatePropertyInput(input)
      [] OTHER -> validateRetirementSavingsInput(input)

HasOverrideMap == engine # "collegeTuition" /\ DOMAIN inp.yearOverrides # {}

(* C1: for an input its validator accepts, every calculate function (FERS,  *)
(* military, Social Security, college tuition, real estate, retirement     *)
(* savings, with or without an override map) returns exactly               *)
(* yearsToProject rows whose years are startYear, startYear + 1, ... in    *)
(* order: the loop never stops early and never pushes an extra row.        *)
C1_RowCount ==
    (pc \in {"loop", "returned"} /\ ValidatorOf(engine, arg) = <<>>) =>
        /\ Len(rows) <= inp.yearsToProject
        /\ \A k \in 1 .. Len(rows) : rows[k].year = inp.startYear + k - 1
        /\ (pc = "returned" => Len(rows) = inp.yearsToProject)

C1_Witness ==
    /\ pc = "returned" /\ engine = "realEstate" /\ entry = "withOverrides"
    /\ HasOverrideMap
    /\ Len(rows) = 3 /\ rows[3].year = 2027

FersRules(input) ==
    LET yearsOfService == input.retirementAge - (input.serviceStartYear - input.birthYear)
        minimumServiceYear ==
            getMinimumServiceYear(input.birthYear, input.retirementAge,
                                  input.retirementType, input.pensionMultiplier)
    IN  << <<input.startYear < 1900, "startYear">>,
           <<input.birthYear < 1900, "birthYear">>,
           <<input.serviceStartYear < 1900, "serviceStartYear">>,
           <<input.serviceEndYear < 1900, "serviceEndYear">>,
           <<input.retirementAge < 40 \/ input.retirementAge > 80, "retirementAge">>,
           <<input.yearsToProject <= 0, "yearsToProject">>,
           <<Le(input.currentSalary, Z(0)), "currentSalary">>,
           <<Lt(input.salaryGrowthRate, Z(-100)), "salaryGrowthRate">>,
           <<Lt(input.survivorBenefitReduction, Z(0)), "survivorBenefitReduction">>,
           <<input.serviceStartYear - input.birthYear < 16, "serviceStartYear">>,
           <<minimumServiceYear = 0, "retirementType">>,
           <<yearsOfService < minimumServiceYear, "serviceStartYear">>,
           <<input.retirementType = "deferred" /\ Le(input.high3Salary, Z(0)),
             "high3Salary">> >>

MilitaryRules(input) ==
    << <<input.startYear < 1900, "startYear">>,
       <<input.birthYear < 1900, "birthYear">>,
       <<input.serviceStartYear < 1900, "serviceStartYear">>,
       <<input.serviceEndYear < 1900, "serviceEndYear">>,
       <<input.serviceStartYear > input.serviceEndYear, "serviceStartYear">>,
       <<input.yearsToProject <= 0, "yearsToProject">>,
       <<Le(input.high3Salary, Z(0)), "high3Salary">>,
       <<input.serviceStartYear - input.birthYear < 17, "serviceStartYear">>,
       <<input.serviceEndYear - input.serviceStartYear < 20, "serviceStartYear">> >>

SocialSecurityRules(input) ==
    << <<input.startYear < 1900, "startYear">>,
       <<input.birthYear < 1900, "birthYear">>,
       <<input.claimingAge < 62, "claimingAge">>,
       <<Le(input.averageIncome, Z(0)), "averageIncome">>,
       <<Lt(input.averageCOLA, Z(0)), "averageCOLA">>,
       <<input.yearsToProject <= 0, "yearsToProject">> >>

CollegeTuitionRules(input) ==
    << <<input.startYear < 1900, "startYear">>,
       <<input.birthYear < 1900, "birthYear">>,
       <<input.childBirthYear <= input.birthYear, "childBirthYear">>,
       <<input.childCollegeFirstYear <= input.childBirthYear, "childCollegeFirstYear">>,
       <<input.childCollegeLastYear < input.childCollegeFirstYear, "childCollegeLastYear">>,
       <<Le(input.initialBalance, Z(0)), "initialBalance">>,
       <<Lt(input.estimatedYield, Z(-100)), "estimatedYield">>,
       <<Le(input.estimatedFirstYearTuition, Z(0)), "estimatedFirstYearTuition">>,
       <<Lt(input.estimatedInflationRate, Z(-100)), "estimatedInflationRate">>,
       <<input.yearsToProject <= 0, "yearsToProject">> >>

RealEstateRules(input) ==
    << <<input.startYear < 1900, "startYear">>,
       <<Lt(input.monthlyMortgage, Z(0)), "monthlyMortgage">>,
       <<Lt(input.annualPropertyTax, Z(0)), "annualPropertyTax">>,
       <<Lt(input.annualInsurance, Z(0)), "annualInsurance">>,
       <<Lt(input.propertyTaxIncreaseRate, Z(0)), "propertyTaxIncreaseRate">>,
       <<Lt(input.insuranceIncreaseRate, Z(0)), "insuranceIncreaseRate">>,
       <<input.yearsToProject <= 0, "yearsToProject">> >>

RetirementSavingsRules(input) ==
    << <<input.startYear < 1900, "startYear">>,
       <<input.birthYear < 1900, "birthYear">>,
       <<Lt(input.initialBalance, Z(0)), "initialBalance">>,
       <<Lt(input.initialContribution, Z(0)), "initialContribution">>,
       <<Lt(input.estimatedYield, Z(-100)), "estimatedYield">>,
       <<Lt(input.estimatedWithdrawRate, Z(0)), "estimatedWithdrawRate">>,
       <<Lt(input.contributionIncreaseRate, Z(-100)), "contributionIncreaseRate">>,
       <<input.withdrawStartAge < 0 \/ input.withdrawStartAge > 80, "withdrawStartAge">>,
       <<input.yearsToProject <= 0, "yearsToProject">> >>

RulesOf(e, input) ==
    CASE e = "fers" -> FersRules(input)
      [] e = "military" -> MilitaryRules(input)
      [] e = "socialSecurity" -> SocialSecurityRules(input)
      [] e = "collegeTuition" -> CollegeTuitionRules(input)
      [] e = "realEstate" -> RealEstateRules(input)
      [] OTHER -> RetirementSavingsRules(input)

FieldsOfViolated(rules) ==
    LET violated == SelectSeq(rules, LAMBDA r : r[1])
    IN  [k \in 1 .. Len(violated) |-> violated[k][2]]

FieldsOf(errs) == [k \in 1 .. Len(errs) |-> errs[k].field]

(* C3: every validator evaluates all of its rules and never stops at the   *)
(* first failure: for an input that violates N rules the returned list has *)
(* exactly N entries, one per violated rule, each tagged with that rule's  *)
(* field, in the fixed order the rules are written; with no rule violated  *)
(* the list is empty.                                                      *)
C3_AllRulesReported ==
    pc = "validated" =>
        /\ FieldsOf(errors) = FieldsOfViolated(RulesOf(engine, arg))
        /\ Len(errors) = Cardinality({k \in 1 .. Len(RulesOf(engine, arg)) :
                                         RulesOf(engine, arg)[k][1]})

C3_Witness ==
    /\ pc = "validated" /\ engine = "fers"
    /\ FieldsOf(errors) = <<"startYear", "yearsToProject", "serviceStartYear">>

OverrideEngines == {"fers", "military", "socialSecurity", "realEstate", "retirementSavings"}

EmptyOverrideOf(e) ==
    CASE e = "fers" -> FersEmptyOverride
      [] e = "military" -> MilitaryEmptyOverride
      [] e = "socialSecurity" -> SocialSecurityEmptyOverride
      [] e = "realEstate" -> RealEstateEmptyOverride
      [] OTHER -> RetirementSavingsEmptyOverride

\* the record the map given to the engine holds for the year of row k
OverrideOfRow(k) ==
    IF rows[k].year \in DOMAIN inp.yearOverrides
    THEN inp.yearOverrides[rows[k].year] ELSE EmptyOverrideOf(engine)

\* the non-negativity clamp, where the engine has one (part_006 lines 112, 129)
Clamped(e, f, v) ==
    IF e = "retirementSavings" /\ f \in {"contribution", "annualWithdraw"}
    THEN MathMax(v, Z(0)) ELSE v

\* the value a row reports for an overridden field that is in use
Shown(e, f, v) ==
    CASE e = "fers" /\ f = "salaryGrowthRate" -> Div(MathRound(Mul(v, Z(100))), Z(100))
      [] e = "realEstate" /\ f # "monthlyMortgage" -> MathRound(v)
      [] OTHER -> Clamped(e, f, v)

\* the years in which the loop reads the field at all
InUse(e, f, k) ==
    LET year == rows[k].year
        age == year - inp.birthYear
    IN  CASE e = "fers" /\ f = "colaApplied" ->
                 age >= 63 /\ year > inp.birthYear + inp.retirementAge
          [] e = "fers" /\ f # "colaApplied" ->
                 /\ year < inp.birthYear + inp.retirementAge
                 /\ ~(inp.retirementType = "deferred" /\ year > inp.serviceEndYear)
          [] e = "military" -> year > inp.serviceEndYear
          [] e = "socialSecurity" ->
                 year > inp.startYear /\ year >= inp.birthYear + inp.claimingAge
          [] e = "realEstate" /\ f = "monthlyMortgage" -> year <= inp.mortgageEndYear
          [] e = "retirementSavings" /\ f = "annualWithdraw" -> age >= inp.withdrawStartAge
          [] e = "retirementSavings" /\ f = "withdrawRate" ->
                 age >= inp.withdrawStartAge /\ ~IsDefined(OverrideOfRow(k).annualWithdraw)
          [] OTHER -> TRUE

\* what the row reports for an overridden field that is not in use
NotInUse(e, f, k) ==
    IF /\ e = "retirementSavings" /\ f = "withdrawRate"
       /\ rows[k].age >= inp.withdrawStartAge
       /\ Lt(Z(0), rows[k].beginningBalance)
    THEN Mul(Div(rows[k].annualWithdraw, rows[k].beginningBalance), Z(100))
    ELSE Z(0)

(* C4 as stated: an override for field F at a year of the horizon makes    *)
(* that year's row report F equal to the override (after the clamp),       *)
(* whatever regime the year is in.                                         *)
C4_OverrideReportedInEveryRegime ==
    engine \in OverrideEngines =>
        \A k \in 1 .. Len(rows) : \A f \in DOMAIN OverrideOfRow(k) :
            IsDefined(OverrideOfRow(k)[f]) =>
                rows[k][f] = Clamped(engine, f, OverrideOfRow(k)[f].val)

(* C4, amended: an override for field F at a year of the horizon makes     *)
(* that year's row report the override (clamped at 0 for a retirement      *)
(* savings contribution or annualWithdraw, rounded to two decimals for a   *)
(* FERS salaryGrowthRate, rounded to an integer for a real-estate tax,     *)
(* insurance, HOA fee or rental income) in the years in which the loop     *)
(* reads the field; in the other years the row reports 0, or, for a        *)
(* withdrawRate given together with an annualWithdraw, the rate that       *)
(* annualWithdraw implies.                                                 *)
C4_OverrideReportedWhereUsed ==
    engine \in OverrideEngines =>
        \A k \in 1 .. Len(rows) : \A f \in DOMAIN OverrideOfRow(k) :
            IsDefined(OverrideOfRow(k)[f]) =>
                rows[k][f] = IF InUse(engine, f, k)
                             THEN Shown(engine, f, OverrideOfRow(k)[f].val)
                             ELSE NotInUse(engine, f, k)

C4_Witness ==
    /\ engine = "fers" /\ pc = "returned"
    /\ \E k \in 1 .. Len(rows) :
          /\ OverrideOfRow(k).colaApplied = Num(Z(20))
          /\ rows[k].year > inp.birthYear + inp.retirementAge
          /\ rows[k].colaApplied = Z(20)
          /\ inp.colaPercent = Z(10)

ZeroOverride(k, f) == OverrideOfRow(k)[f] = Num(Z(0))

(* C5 as stated: in every WithOverrides function an override of exactly 0  *)
(* is a present override, so the year's row carries 0 for that field       *)
(* instead of the carried-forward or default value.                        *)
C5_ZeroOverrideAlwaysUsed ==
    engine \in OverrideEngines =>
        \A k \in 1 .. Len(rows) : \A f \in DOMAIN OverrideOfRow(k) :
            ZeroOverride(k, f) => rows[k][f] = Z(0)

(* C5, amended: an override of exactly 0 is a present override: the year's *)
(* row carries 0 for that field and the recurrence uses 0 (no yield, no    *)
(* withdrawal, no COLA step, a salary or expense line of 0) instead of the *)
(* carried-forward or default value, except for a retirement savings       *)
(* withdrawRate of 0 given together with an annualWithdraw override in a   *)
(* withdrawal year: there the annualWithdraw override is used and the row  *)
(* carries the rate it implies.                                            *)
C5_ZeroOverrideUsed ==
    engine \in OverrideEngines =>
        \A k \in 1 .. Len(rows) : \A f \in DOMAIN OverrideOfRow(k) :
            ZeroOverride(k, f) =>
                IF /\ engine = "retirementSavings" /\ f = "withdrawRate"
                   /\ IsDefined(OverrideOfRow(k).annualWithdraw)
                   /\ rows[k].age >= inp.withdrawStartAge
                THEN /\ rows[k].annualWithdraw =
                            MathMax(OverrideOfRow(k).annualWithdraw.val, Z(0))
                     /\ rows[k].withdrawRate = NotInUse(engine, f, k)
                ELSE /\ rows[k][f] = Z(0)
                     /\ (engine = "retirementSavings" /\ f = "yieldPercent") =>
                            rows[k].endingBalance =
                                Sub(Add(rows[k].beginningBalance, rows[k].contribution),
                                    rows[k].annualWithdraw)
                     /\ (engine = "retirementSavings" /\ f = "withdrawRate") =>
                            rows[k].annualWithdraw = Z(0)
                     /\ (engine \in {"fers", "military"} /\ f = "colaApplied" /\ k > 1
                            /\ InUse(engine, f, k)) =>
                            rows[k].pension = rows[k - 1].pension
                     /\ (engine = "socialSecurity" /\ k < Len(rows)
                            /\ InUse(engine, f, k)) =>
                            rows[k + 1].annualBenefit = rows[k].annualBenefit
                     /\ (engine = "realEstate" /\ f = "monthlyRentalIncome") =>
                            rows[k].annualIncome = Z(0)

C5_Witness ==
    /\ engine = "retirementSavings" /\ pc = "returned"
    /\ \E k \in 2 .. Len(rows) :
          /\ ZeroOverride(k, "yieldPercent")
          /\ rows[k].yieldPercent = Z(0)
          /\ rows[k - 1].yieldPercent = Z(10)
          /\ Lt(Z(0), rows[k].beginningBalance)

(* the value of each calculate...WithOverrides function: the rows the    *)
(* loop pushes from its first pass on, or the validation errors thrown    *)
RECURSIVE FersRows(_, _, _)
FersRows(input, year, pension) ==
    IF ~(year < input.startYear + input.yearsToProject) THEN <<>>
    ELSE LET p == FersPass(input, year, pension)
         IN  <<p.row>> \o FersRows(input, year + 1, p.pension)

RECURSIVE MilitaryRows(_, _, _)
MilitaryRows(input, year, monthlyPension) ==
    IF ~(year < input.startYear + input.yearsToProject) THEN <<>>
    ELSE LET p == MilitaryPass(input, year, monthlyPension)
         IN  <<p.row>> \o MilitaryRows(input, year + 1, p.monthlyPension)

RECURSIVE SocialSecurityRows(_, _, _)
SocialSecurityRows(input, i, annualBenefitBase) ==
    IF ~(i < input.yearsToProject) THEN <<>>
    ELSE LET p == SocialSecurityPass(input, i, annualBenefitBase)
         IN  <<p.row>> \o SocialSecurityRows(input, i + 1, p.annualBenefitBase)

RECURSIVE RealEstateRows(_, _, _)
RealEstateRows(input, i, a) ==
    IF ~(i < input.yearsToProject) THEN <<>>
    ELSE LET p == RealEstatePass(input, i, a)
         IN  <<p.row>> \o RealEstateRows(input, i + 1, p.acc)

RECURSIVE RetirementSavingsRows(_, _, _)
RetirementSavingsRows(input, i, a) ==
    IF ~(i < input.yearsToProject) THEN <<>>
    ELSE LET p == RetirementSavingsPass(input, i, a)
         IN  <<p.row>> \o RetirementSavingsRows(input, i + 1, p.acc)

ProjectionWithOverrides(e, input) ==
    LET errs == ValidatorOf(e, input)
    IN  IF Len(errs) > 0
        THEN [threw |-> TRUE, validationErrors |-> errs, rows |-> <<>>]
        ELSE [threw |-> FALSE, validationErrors |-> <<>>,
              rows |->
                CASE e = "fers" ->
                       FersRows(input, input.startYear, FersBasePension(input))
                  [] e = "military" ->
                       MilitaryRows(input, input.startYear, MilitaryBasePension(input))
                  [] e = "socialSecurity" ->
                       SocialSecurityRows(input, 0, SocialSecurityBase(input))
                  [] e = "realEstate" ->
                       RealEstateRows(input, 0, RealEstateInitial(input))
                  [] OTHER ->
                       RetirementSavingsRows(input, 0, RetirementSavingsInitial(input))]

DefinedField(o) == \E f \in DOMAIN o : IsDefined(o[f])

(* C7 as stated: in the FERS, military, real-estate and retirement-savings *)
(* engines a row's hasOverride is true exactly when the override map holds *)
(* for that year at least one of the engine's override fields with a      *)
(* defined value; an absent year, an empty record or a record whose fields *)
(* are all undefined gives false.                                          *)
C7_HasOverrideIffDefinedField ==
    engine \in {"fers", "military", "realEstate", "retirementSavings"} =>
        \A k \in 1 .. Len(rows) :
            rows[k].hasOverride <=> DefinedField(OverrideOfRow(k))

(* C8 as stated: in the retirement savings engine every row with           *)
(* age >= withdrawStartAge has contribution exactly 0, the first row       *)
(* included when the owner is already past the withdrawal age at           *)
(* startYear, and years with a contribution override included.             *)
C8_NoContributionWhenWithdrawing ==
    engine \in {"retirementSavings", "savings"} =>
        \A k \in 1 .. Len(rows) :
            rows[k].age >= inp.withdrawStartAge => rows[k].contribution = Z(0)

\* the input breaks no rule other than the two on the initial amounts
OnlyInitialAmountsNegative(input) ==
    /\ Lt(input.initialBalance, Z(0)) \/ Lt(input.initialContribution, Z(0))
    /\ \A k \in 1 .. Len(validateRetirementSavingsInput(input)) :
          validateRetirementSavingsInput(input)[k].field
              \in {"initialBalance", "initialContribution"}

(* C9 as stated: in the retirement savings engine a negative               *)
(* initialBalance or initialContribution does not make the calculation     *)
(* fail; it is coerced to 0: the first row's beginningBalance is 0 and     *)
(* every row's contribution is >= 0.                                       *)
C9_NegativeInitialAmountsCoerced ==
    (engine \in {"retirementSavings", "savings"} /\ pc # "call"
        /\ OnlyInitialAmountsNegative(arg)) =>
        /\ pc # "thrown"
        /\ (Len(rows) >= 1 /\ Lt(arg.initialBalance, Z(0))) =>
              rows[1].beginningBalance = Z(0)
        /\ \A k \in 1 .. Len(rows) : Le(Z(0), rows[k].contribution)

NoOverrides == DOMAIN inp.yearOverrides = {}

BothRetired(k) ==
    /\ rows[k].year >= inp.birthYear + inp.retirementAge
    /\ rows[k + 1].year >= inp.birthYear + inp.retirementAge

(* C10 as stated: FERS, validated input, colaPercent > 0, no overrides:    *)
(* for two consecutive rows that both have year >= birthYear +             *)
(* retirementAge the later row's pension is strictly greater than the      *)
(* earlier row's.                                                          *)
C10_PensionStrictlyGrows ==
    (engine = "fers" /\ pc \in {"loop", "returned"} /\ NoOverrides
        /\ Lt(Z(0), inp.colaPercent)) =>
        \A k \in 1 .. Len(rows) - 1 :
            BothRetired(k) => Lt(rows[k].pension, rows[k + 1].pension)

(* C10, amended: FERS, validated input, colaPercent > 0, no overrides: for *)
(* two consecutive rows that both have year >= birthYear + retirementAge,  *)
(* the later row's pension is strictly greater than the earlier row's when *)
(* the later row's age is at least 63 and the earlier pension is positive; *)
(* it is equal to the earlier row's when the later row's age is below 63   *)
(* or the earlier pension is 0.                                            *)
C10_PensionGrowsFromAge63 ==
    (engine = "fers" /\ pc \in {"loop", "returned"} /\ NoOverrides
        /\ Lt(Z(0), inp.colaPercent)) =>
        \A k \in 1 .. Len(rows) - 1 :
            BothRetired(k) =>
                /\ (rows[k + 1].age >= 63 /\ Lt(Z(0), rows[k].pension)) =>
                       Lt(rows[k].pension, rows[k + 1].pension)
                /\ (rows[k + 1].age < 63 \/ rows[k].pension = Z(0)) =>
                       rows[k + 1].pension = rows[k].pension

C10_Witness ==
    /\ engine = "fers" /\ pc = "returned" /\ NoOverrides
    /\ Lt(Z(0), inp.colaPercent)
    /\ \E k \in 1 .. Len(rows) - 2 :
          /\ BothRetired(k)
          /\ rows[k + 1].age = 62 /\ rows[k + 1].pension = rows[k].pension
          /\ rows[k + 2].age = 63 /\ Lt(rows[k + 1].pension, rows[k + 2].pension)

\* the benefit of the year of pass i before rounding (benefitForYear)
RECURSIVE SocialSecurityBaseAt(_, _)
SocialSecurityBaseAt(input, i) ==
    IF i = 0 THEN SocialSecurityBase(input)
    ELSE SocialSecurityPass(input, i - 1,
                            SocialSecurityBaseAt(input, i - 1)).annualBenefitBase

BothClaiming(k) ==
    /\ rows[k].year >= inp.birthYear + inp.claimingAge
    /\ rows[k + 1].year >= inp.birthYear + inp.claimingAge

(* C11 as stated: Social Security, validated input, averageCOLA > 0, no    *)
(* overrides: for two consecutive rows that both have year >= birthYear +  *)
(* claimingAge the later row's annualBenefit (as reported, rounded) is     *)
(* strictly greater than the earlier row's.                                *)
C11_BenefitStrictlyGrows ==
    (engine = "socialSecurity" /\ pc \in {"loop", "returned"} /\ NoOverrides
        /\ Lt(Z(0), inp.averageCOLA)) =>
        \A k \in 1 .. Len(rows) - 1 :
            BothClaiming(k) => Lt(rows[k].annualBenefit, rows[k + 1].annualBenefit)

(* C11, amended: Social Security, validated input, averageCOLA > 0, no     *)
(* overrides: for two consecutive rows that both have year >= birthYear +  *)
(* claimingAge: when the earlier row is the first projected row no COLA is *)
(* applied and the two annualBenefit values are equal; otherwise the later *)
(* row's annualBenefit is at least the earlier row's, and strictly greater *)
(* whenever the earlier row's benefit before rounding, times               *)
(* averageCOLA / 100, is at least 1.                                       *)
C11_BenefitGrowsAfterFirstYear ==
    (engine = "socialSecurity" /\ pc \in {"loop", "returned"} /\ NoOverrides
        /\ Lt(Z(0), inp.averageCOLA)) =>
        \A k \in 1 .. Len(rows) - 1 :
            BothClaiming(k) =>
                IF k = 1
                THEN rows[2].annualBenefit = rows[1].annualBenefit
                ELSE /\ Le(rows[k].annualBenefit, rows[k + 1].annualBenefit)
                     /\ Le(Z(1), Mul(SocialSecurityBaseAt(inp, k - 1),
                                     Div(inp.averageCOLA, Z(100)))) =>
                            Lt(rows[k].annualBenefit, rows[k + 1].annualBenefit)

C11_Witness ==
    /\ engine = "socialSecurity" /\ pc = "returned" /\ NoOverrides
    /\ Lt(Z(0), inp.averageCOLA)
    /\ Len(rows) >= 3 /\ BothClaiming(1)
    /\ rows[2].annualBenefit = rows[1].annualBenefit
    /\ Lt(rows[2].annualBenefit, rows[3].annualBenefit)

(* C12: determinism: every engine's outcome (the rows returned, or the     *)
(* validation errors thrown) depends only on the input record and the      *)
(* override map: a second call with the same argument, whenever it is      *)
(* made, ends the same way with the same rows; this includes               *)
(* calculateMortgageAmortization when the optional startDate is omitted.   *)
C12_SameArgumentSameOutcome ==
    (earlier.made /\ pc \in {"returned", "thrown"}) =>
        /\ pc = earlier.pc
        /\ rows = earlier.rows
        /\ thrown = earlier.thrown

\* the funds of a college row: beginning balance, contribution and yield
FundsOfRow(k) ==
    Add(Add(rows[k].beginningBalance, rows[k].contribution),
        Div(Mul(rows[k].beginningBalance, rows[k].yieldPercent), Z(100)))

(* C13: college projection: every row's annualWithdraw is the smaller of   *)
(* tuitionAmount and beginningBalance + contribution + yield, so the       *)
(* withdrawal never exceeds the funds and endingBalance is never negative. *)
C13_WithdrawCappedByFunds ==
    (engine = "collegeTuition" /\ pc \in {"loop", "returned"}) =>
        \A k \in 1 .. Len(rows) :
            /\ rows[k].annualWithdraw =
                   (IF Lt(FundsOfRow(k), rows[k].tuitionAmount)
                    THEN FundsOfRow(k) ELSE rows[k].tuitionAmount)
            /\ Le(rows[k].annualWithdraw, FundsOfRow(k))
            /\ Le(Z(0), rows[k].endingBalance)

C13_Witness ==
    /\ engine = "collegeTuition" /\ pc = "returned"
    /\ \E k \in 1 .. Len(rows) :
           /\ Lt(FundsOfRow(k), rows[k].tuitionAmount)
           /\ rows[k].annualWithdraw = FundsOfRow(k)
           /\ Lt(Z(0), rows[k].annualWithdraw)
           /\ rows[k].endingBalance = Z(0)
    /\ \E k \in 1 .. Len(rows) :
           /\ Lt(Z(0), rows[k].tuitionAmount)
           /\ rows[k].annualWithdraw = rows[k].tuitionAmount
           /\ Lt(Z(0), rows[k].endingBalance)

\* the balance the loop tests before month k: the loan amount, or the
\* balance left by month k - 1
BalanceBeforeMonth(k) == IF k = 1 THEN arg.loanAmount ELSE rows[k - 1].balance

AmortizationRowsWellFormed ==
    engine = "mortgage" =>
        /\ Le(Z(Len(rows)), Mul(arg.termYears, Z(12)))
        /\ \A k \in 1 .. Len(rows) :
               /\ rows[k].month = k
               /\ Lt(Q(1, 100), BalanceBeforeMonth(k))

(* C14: calculateMortgageAmortization terminates; it produces at most      *)
(* termYears * 12 rows, the rows' month fields are 1, 2, ..., n, and a row *)
(* for month i exists only if the balance after month i - 1 (the loan      *)
(* amount for i = 1) was greater than 0.01.                                *)
C14_TerminatesWithinTerm ==
    /\ [](AmortizationRowsWellFormed)
    /\ <>(pc = "returned")

C14_Witness ==
    /\ engine = "mortgage" /\ pc = "returned"
    /\ Len(rows) >= 2
    /\ Lt(Z(Len(rows)), Mul(arg.termYears, Z(12)))
    /\ Le(rows[Len(rows)].balance, Q(1, 100))

\* a zero-rate schedule: no interest, each month's principal is the smaller
\* of loanAmount / (termYears * 12) + extraPayment and the balance, and the
\* balance of the last row is at most 0.01
ZeroRateSchedule ==
    /\ \A k \in 1 .. Len(rows) :
           /\ rows[k].interest = Z(0)
           /\ LET due == Add(Div(arg.loanAmount, Mul(arg.termYears, Z(12))),
                             IF arg.extraPayment.tag = "number"
                             THEN arg.extraPayment.val ELSE Z(0))
              IN  rows[k].principal =
                      (IF Lt(BalanceBeforeMonth(k), due)
                       THEN BalanceBeforeMonth(k) ELSE due)
    /\ (pc = "returned" /\ Len(rows) > 0) =>
           Le(rows[Len(rows)].balance, Q(1, 100))

C16_ThrowsWithoutYears ==
    (engine \in {"retirementSavings", "savings", "fers", "socialSecurity",
                 "collegeTuition"}
        /\ entry = "plain" /\ arg.yearsToProject <= 0
        /\ pc \in {"returned", "thrown"}) =>
        pc = "thrown"

\* the row of the claiming year, as an index into rows (0 when the claiming
\* year is not among the rows)
ClaimingRow ==
    LET k == inp.birthYear + inp.claimingAge - inp.startYear + 1
    IN  IF k \in 1 .. Len(rows) THEN k ELSE 0

\* the annualBenefit of the claiming-year row of the projection for the same
\* birth year, income and COLA when claiming at the given age, the projection
\* starting in that claiming year
ClaimingYearBenefitAt(claimingAge) ==
    LET other == [inp EXCEPT !.claimingAge = claimingAge,
                             !.startYear = inp.birthYear + claimingAge,
                             !.yearsToProject = 1]
    IN  SocialSecurityRows(other, 0, SocialSecurityBase(other))[1].annualBenefit

\* the full retirement age when it is a whole number of years (birth years
\* up to 1937, 1943 to 1954, and from 1960), else 0
WholeFullRetirementAge ==
    LET fra == getFullRetirementAge(inp.birthYear)
    IN  IF fra[2] = 1 THEN fra[1] ELSE 0

ClaimingYearShown ==
    /\ engine = "socialSecurity" /\ pc \in {"loop", "returned"} /\ NoOverrides
    /\ ClaimingRow > 0

(* C17 as stated: Social Security, same birthYear, averageIncome and       *)
(* averageCOLA, claiming year inside the projection: the claiming-year     *)
(* annualBenefit is strictly lower when claimingAge is below the full      *)
(* retirement age than when it equals it, and strictly higher when above.  *)
C17_EarlyLowerLateHigher ==
    (ClaimingYearShown /\ WholeFullRetirementAge > 0) =>
        /\ inp.claimingAge < WholeFullRetirementAge =>
               Lt(rows[ClaimingRow].annualBenefit,
                  ClaimingYearBenefitAt(WholeFullRetirementAge))
        /\ inp.claimingAge > WholeFullRetirementAge =>
               Lt(ClaimingYearBenefitAt(WholeFullRetirementAge),
                  rows[ClaimingRow].annualBenefit)

\* the change of the unrounded annual benefit, PIA * 12, for claiming the
\* given number of months away from the full retirement age at the given
\* rate per month
BenefitChange(months, perMonth) ==
    Mul(Mul(estimatePIA(inp.averageIncome), Z(12)), Mul(Z(months), perMonth))

(* C17, amended: Social Security, same birthYear, averageIncome and        *)
(* averageCOLA, claiming year inside the projection: the claiming-year     *)
(* annualBenefit (rounded) is never higher when claimingAge is below the   *)
(* full retirement age than when it equals it, and never lower when above; *)
(* it is strictly lower (strictly higher) whenever the change before       *)
(* rounding, PIA * 12 * 0.005 per month early (0.0067 per month late), is  *)
(* at least 1.                                                             *)
C17_EarlyNotHigherLateNotLower ==
    (ClaimingYearShown /\ WholeFullRetirementAge > 0) =>
        LET atFull == ClaimingYearBenefitAt(WholeFullRetirementAge)
            claimed == rows[ClaimingRow].annualBenefit
            monthsEarly == (WholeFullRetirementAge - inp.claimingAge) * 12
            monthsLate == (inp.claimingAge - WholeFullRetirementAge) * 12
        IN  /\ inp.claimingAge < WholeFullRetirementAge =>
                /\ Le(claimed, atFull)
                /\ Le(Z(1), BenefitChange(monthsEarly, Q(5, 1000))) =>
                       Lt(claimed, atFull)
            /\ inp.claimingAge > WholeFullRetirementAge =>
                /\ Le(atFull, claimed)
                /\ Le(Z(1), BenefitChange(monthsLate, Q(67, 10000))) =>
                       Lt(atFull, claimed)

C17_Witness ==
    /\ ClaimingYearShown /\ pc = "returned"
    /\ WholeFullRetirementAge > 0
    /\ inp.claimingAge < WholeFullRetirementAge
    /\ Lt(rows[ClaimingRow].annualBenefit,
          ClaimingYearBenefitAt(WholeFullRetirementAge))
    /\ Lt(Z(1000), rows[ClaimingRow].annualBenefit)

(* C18: Social Security: the delayed-claiming increase is capped at age    *)
(* 70: the claiming-year annualBenefit for any claimingAge above 70 equals *)
(* the claiming-year annualBenefit for claimingAge 70.                     *)
C18_IncreaseCappedAt70 ==
    (ClaimingYearShown /\ inp.claimingAge > 70) =>
        rows[ClaimingRow].annualBenefit = ClaimingYearBenefitAt(70)

\* the rate applied in row k: the year's withdrawRate override when it is
\* not nullish, else estimatedWithdrawRate
WithdrawRateOfRow(k) ==
    IF engine = "retirementSavings" /\ OverrideOfRow(k).withdrawRate.tag = "number"
    THEN OverrideOfRow(k).withdrawRate.val ELSE inp.estimatedWithdrawRate

(* C19: retirement savings applies no cap to the withdrawal: in a          *)
(* withdrawing year annualWithdraw is exactly withdrawRate / 100 *         *)
(* beginningBalance (or the annualWithdraw override clamped at 0), even    *)
(* when that exceeds beginningBalance + yield + contribution; validated    *)
(* inputs without overrides therefore reach a negative endingBalance.      *)
C19_WithdrawalNotCapped ==
    (engine \in {"retirementSavings", "savings"} /\ pc \in {"loop", "returned"}) =>
        \A k \in 1 .. Len(rows) :
            rows[k].age >= inp.withdrawStartAge =>
                rows[k].annualWithdraw =
                    (IF engine = "retirementSavings"
                        /\ OverrideOfRow(k).annualWithdraw.tag = "number"
                     THEN (IF Lt(OverrideOfRow(k).annualWithdraw.val, Z(0))
                           THEN Z(0) ELSE OverrideOfRow(k).annualWithdraw.val)
                     ELSE Div(Mul(WithdrawRateOfRow(k), rows[k].beginningBalance),
                              Z(100)))

C19_Witness ==
    /\ engine = "retirementSavings" /\ pc = "returned" /\ NoOverrides
    /\ \E k \in 1 .. Len(rows) :
           /\ rows[k].age >= inp.withdrawStartAge
           /\ Lt(Add(Add(rows[k].beginningBalance, rows[k].contribution),
                     Div(Mul(rows[k].yieldPercent, rows[k].beginningBalance), Z(100))),
                 rows[k].annualWithdraw)
           /\ Lt(rows[k].endingBalance, Z(0))

FersRetiredRow(k) == rows[k].year >= inp.birthYear + inp.retirementAge

\* the rows in which the claim places the COLA
FersColaRow(k) ==
    /\ FersRetiredRow(k)
    /\ rows[k].age >= 63
    /\ rows[k].year > inp.birthYear + inp.retirementAge

\* the pension carried into row k: that of the previous retired row, or the
\* base pension
FersPensionBefore(k) ==
    IF k > 1 /\ FersRetiredRow(k - 1) THEN rows[k - 1].pension
    ELSE FersBasePension(inp)

\* the year's colaApplied override, or colaPercent
FersColaOfRow(k) ==
    IF OverrideOfRow(k).colaApplied.tag = "number"
    THEN OverrideOfRow(k).colaApplied.val ELSE inp.colaPercent

(* C21: FERS: among the rows with year >= retirementYear the pension is    *)
(* multiplied by 1 + cola / 100, and colaApplied is that cola, exactly in  *)
(* the rows with age >= 63 and year > retirementYear; in every other row   *)
(* (before retirement, the retirement-year row, a retired row with age     *)
(* below 63) colaApplied is 0, and a retired row's pension is the pension  *)
(* of the previous retired row, or the base pension if there is none.      *)
C21_ColaFrom63AfterRetirementYear ==
    (engine = "fers" /\ pc \in {"loop", "returned"}) =>
        \A k \in 1 .. Len(rows) :
            IF FersColaRow(k)
            THEN /\ rows[k].colaApplied = FersColaOfRow(k)
                 /\ rows[k].pension =
                        Mul(FersPensionBefore(k),
                            Add(Z(1), Div(FersColaOfRow(k), Z(100))))
            ELSE /\ rows[k].colaApplied = Z(0)
                 /\ FersRetiredRow(k) => rows[k].pension = FersPensionBefore(k)

C21_Witness ==
    /\ engine = "fers" /\ pc = "returned" /\ Len(rows) >= 3
    /\ \E k \in 2 .. Len(rows) :
           /\ FersColaRow(k) /\ FersRetiredRow(k - 1) /\ ~FersColaRow(k - 1)
           /\ rows[k].colaApplied = Z(20)
           /\ Lt(Z(0), rows[k - 1].pension)
           /\ rows[k].pension = Mul(rows[k - 1].pension, Q(6, 5))
    /\ \E k \in 1 .. Len(rows) : ~FersRetiredRow(k)

\* the FERS call has passed validation and has not yet produced a row: the
\* accumulator holds the base pension
FersBaseComputed == engine = "fers" /\ pc = "loop" /\ rows = <<>>

\* the base pension without the early-retirement reduction
FersUnreducedPension ==
    LET high3 == calculateHigh3(calculateSalaryHistory(inp), inp.startYear,
                                inp.birthYear + inp.retirementAge,
                                inp.retirementType, Num(inp.high3Salary))
        yearsOfService == calculateYearsOfService(inp)
        share == IF Lt(Q(3, 2), inp.pensionMultiplier)
                 THEN Div(calculateSpecialProvisionMultiplier(yearsOfService), Z(100))
                 ELSE Mul(Div(inp.pensionMultiplier, Z(100)), Z(yearsOfService))
    IN  Mul(Mul(high3, share), Sub(Z(1), inp.survivorBenefitReduction))

\* the reduction percentage as the claim gives it
ReductionPercent ==
    LET yearsOfService == calculateYearsOfService(inp)
        under62 == IF inp.retirementAge < 62 THEN 62 - inp.retirementAge ELSE 0
    IN  IF inp.retirementType \in {"regular", "early"} THEN 0
        ELSE IF yearsOfService >= 30 THEN 0
        ELSE IF inp.retirementType = "deferred" /\ yearsOfService >= 20
                /\ inp.retirementAge >= 60 THEN 0
        ELSE 5 * under62

(* C22: FERS early-retirement reduction: the reduction percentage is 0 for *)
(* retirementType regular and early; for mra10 and deferred it is          *)
(* 5 * max(0, 62 - retirementAge), except that it is 0 when yearsOfService *)
(* >= 30, or when the type is deferred with yearsOfService >= 20 and       *)
(* retirementAge >= 60; the base pension is multiplied by                  *)
(* 1 - reduction / 100.                                                    *)
C22_EarlyRetirementReduction ==
    FersBaseComputed =>
        acc.pension = Mul(FersUnreducedPension,
                          Sub(Z(1), Div(Z(ReductionPercent), Z(100))))

C22_Witness ==
    /\ FersBaseComputed
    /\ inp.retirementType = "mra10" /\ inp.retirementAge < 62
    /\ calculateYearsOfService(inp) >= 30
    /\ acc.pension = FersUnreducedPension
    /\ Lt(Z(0), acc.pension)

\* the projected pre-retirement years that count for the high-3: the last
\* min(3, k) of the k = retirementYear - startYear years before retirement
High3Years ==
    {y \in inp.startYear .. (inp.birthYear + inp.retirementAge - 1) :
        y >= inp.birthYear + inp.retirementAge - 3}

\* the pension base as the claim gives it
High3OfClaim ==
    IF inp.retirementType = "deferred" THEN inp.high3Salary
    ELSE IF inp.startYear >= inp.birthYear + inp.retirementAge THEN inp.currentSalary
    ELSE Div(SumOver(calculateSalaryHistory(inp), High3Years),
             Z(Cardinality(High3Years)))

\* the pension computed from a given pension base (fers.ts lines 95-110)
FersPensionFrom(high3) ==
    LET yearsOfService == calculateYearsOfService(inp)
        keep == Sub(Z(1), Div(Z(calculatePensionReduction(inp, yearsOfService)), Z(100)))
        share == IF Lt(Q(3, 2), inp.pensionMultiplier)
                 THEN Div(calculateSpecialProvisionMultiplier(yearsOfService), Z(100))
                 ELSE Mul(Div(inp.pensionMultiplier, Z(100)), Z(yearsOfService))
    IN  Mul(Mul(Mul(high3, share), keep), Sub(Z(1), inp.survivorBenefitReduction))

(* C23: FERS high-3: for retirement types other than deferred the pension  *)
(* base is the arithmetic mean of the salaries (after salary and           *)
(* growth-rate overrides) of the last min(3, k) projected pre-retirement   *)
(* years, k = retirementYear - startYear >= 1, and it is currentSalary     *)
(* when startYear >= retirementYear; for deferred with high3Salary         *)
(* supplied it is input.high3Salary and the salary history is not used.    *)
C23_High3IsMeanOfLastThree ==
    FersBaseComputed => acc.pension = FersPensionFrom(High3OfClaim)

C23_Witness ==
    /\ FersBaseComputed /\ inp.retirementType = "regular"
    /\ inp.birthYear + inp.retirementAge - inp.startYear = 5
    /\ 2027 \in DOMAIN inp.yearOverrides
    /\ inp.yearOverrides[2027].salary = Num(Z(200))
    /\ High3Years = {2027, 2028, 2029}
    /\ High3OfClaim = Div(Add(Add(Z(200), Z(300)), Z(450)), Z(3))
    /\ acc.pension = FersPensionFrom(High3OfClaim)
    /\ Lt(Z(0), acc.pension)

\* the monthlyPension the claim gives for a retired year
MilitaryPensionOfYear(year) ==
    Mul(Mul(Mul(inp.high3Salary, Z(inp.serviceEndYear - inp.serviceStartYear)),
            Div(IF inp.retirementType = "high3" THEN Q(5, 2) ELSE Z(2), Z(100))),
        MathPow(Add(Z(1), Div(inp.colaPercent, Z(100))), year - inp.serviceEndYear))

(* C24: military pension, no overrides: every row with year <              *)
(* serviceEndYear has pension = monthlyPension = colaApplied = 0; every    *)
(* row with year >= serviceEndYear has monthlyPension = high3Salary *      *)
(* (serviceEndYear - serviceStartYear) * m / 100 * (1 + colaPercent /      *)
(* 100)^(year - serviceEndYear), m = 2.5 for high3 and 2 for brs, and      *)
(* pension = 12 * monthlyPension: no COLA in the retirement year, and the  *)
(* row of a calendar year does not depend on whether the projection starts *)
(* before or after the retirement year.                                    *)
C24_MilitaryPensionClosedForm ==
    (engine = "military" /\ pc \in {"loop", "returned"} /\ NoOverrides) =>
        \A k \in 1 .. Len(rows) :
            IF rows[k].year < inp.serviceEndYear
            THEN /\ rows[k].pension = Z(0)
                 /\ rows[k].monthlyPension = Z(0)
                 /\ rows[k].colaApplied = Z(0)
            ELSE /\ rows[k].monthlyPension = MilitaryPensionOfYear(rows[k].year)
                 /\ rows[k].pension = Mul(Z(12), rows[k].monthlyPension)

C24_Witness ==
    /\ engine = "military" /\ pc = "returned" /\ NoOverrides
    /\ inp.serviceEndYear = 2023 /\ inp.retirementType = "high3"
    /\ Len(rows) >= 2
    /\ rows[1].year = 2025
    /\ rows[1].monthlyPension = Mul(Mul(Mul(Z(100), Z(23)), Q(25, 1000)), Q(121, 100))
    /\ rows[2].monthlyPension = Mul(rows[1].monthlyPension, Q(11, 10))

\* the pre-retirement years of the projection that carry a salary override
SalaryOverrideYears ==
    { y \in DOMAIN inp.yearOverrides :
        /\ inp.yearOverrides[y].salary.tag = "number"
        /\ inp.startYear <= y
        /\ y < inp.birthYear + inp.retirementAge }

\* the growth rate that carries year y's salary into year y + 1
GrowthAfter(y) ==
    IF inp.yearOverrides[y].salaryGrowthRate.tag = "number"
    THEN inp.yearOverrides[y].salaryGrowthRate.val
    ELSE inp.salaryGrowthRate

\* a deferred retiree's rows after serviceEndYear report no salary
SalaryReported(year) ==
    ~(inp.retirementType = "deferred" /\ year > inp.serviceEndYear)

\* the salary a pre-retirement row reports when no earlier year is overridden
SalaryWithoutOverride(year) ==
    IF SalaryReported(year)
    THEN Mul(inp.currentSalary,
             MathPow(Add(Z(1), Div(inp.salaryGrowthRate, Z(100))), year - inp.startYear))
    ELSE Z(0)

\* the rows before an overridden year are those of the run without overrides
RowsBeforeOverrideUnchanged ==
    /\ NoOverrides =>
         \A k \in 1 .. Len(rows) :
             rows[k].year < inp.birthYear + inp.retirementAge =>
                 rows[k].salary = SalaryWithoutOverride(rows[k].year)
    /\ \A y \in SalaryOverrideYears : \A k \in 1 .. Len(rows) :
             rows[k].year < y => rows[k].salary = SalaryWithoutOverride(rows[k].year)

(* C25 as stated: a FERS salary override for a pre-retirement year Y       *)
(* leaves the salary of every row before Y unchanged, sets row Y's salary  *)
(* to the override, and makes the default salary of year Y + 1 equal to    *)
(* override * (1 + g/100), g being year Y's salaryGrowthRate override if   *)
(* present and the input salaryGrowthRate otherwise.                       *)
C25_SalaryOverrideCarriesForward ==
    (engine = "fers" /\ pc \in {"loop", "returned"}) =>
        /\ RowsBeforeOverrideUnchanged
        /\ \A y \in SalaryOverrideYears : \A k \in 1 .. Len(rows) :
             /\ rows[k].year = y => rows[k].salary = inp.yearOverrides[y].salary.val
             /\ (rows[k].year = y + 1 /\ y + 1 < inp.birthYear + inp.retirementAge) =>
                   rows[k].salary = Mul(inp.yearOverrides[y].salary.val,
                                        Add(Z(1), Div(GrowthAfter(y), Z(100))))

(* C25, amended: a FERS salary override for a pre-retirement year Y leaves *)
(* the salary of every row before Y unchanged; in the rows that report a   *)
(* salary (every pre-retirement row, except those after serviceEndYear for *)
(* a deferred retirement, which report 0) row Y's salary is the override   *)
(* and the default salary of year Y + 1 is override * (1 + g/100), g being *)
(* year Y's salaryGrowthRate override if present and the input             *)
(* salaryGrowthRate otherwise.                                             *)
C25_SalaryOverrideCarriesForwardWhereReported ==
    (engine = "fers" /\ pc \in {"loop", "returned"}) =>
        /\ RowsBeforeOverrideUnchanged
        /\ \A y \in SalaryOverrideYears : \A k \in 1 .. Len(rows) :
             /\ rows[k].year = y =>
                   rows[k].salary = IF SalaryReported(y)
                                    THEN inp.yearOverrides[y].salary.val
                                    ELSE Z(0)
             /\ (rows[k].year = y + 1 /\ y + 1 < inp.birthYear + inp.retirementAge) =>
                   rows[k].salary = IF SalaryReported(y + 1)
                                    THEN Mul(inp.yearOverrides[y].salary.val,
                                             Add(Z(1), Div(GrowthAfter(y), Z(100))))
                                    ELSE Z(0)

C25_Witness ==
    /\ engine = "fers" /\ pc = "returned" /\ inp.retirementType = "regular"
    /\ SalaryOverrideYears = {2026}
    /\ inp.yearOverrides[2026].salaryGrowthRate.tag = "number"
    /\ Len(rows) >= 3
    /\ rows[1].salary = Z(100)
    /\ rows[2].salary = Z(200)
    /\ rows[3].salary = Z(400)

\* round(initial * (1 + rate/100)^i)
RoundedGrowth(initial, rate, i) ==
    MathRound(Mul(initial, MathPow(Add(Z(1), Div(rate, Z(100))), i)))

\* the three expense lines of row k are those of an unrounded accumulator
ExpenseLinesUnrounded(k) ==
    /\ rows[k].annualPropertyTax =
           RoundedGrowth(inp.annualPropertyTax, inp.propertyTaxIncreaseRate, k - 1)
    /\ rows[k].annualInsurance =
           RoundedGrowth(inp.annualInsurance, inp.insuranceIncreaseRate, k - 1)
    /\ rows[k].monthlyHoaFee =
           RoundedGrowth(Nullish(inp.monthlyHoaFee, Z(0)), inp.hoaFeeIncreaseRate, k - 1)

(* C26: real estate, no overrides: rounding happens only when a value is   *)
(* written into a row, the accumulator of every line (property tax,        *)
(* insurance, HOA fee, rental income) being carried unrounded, so the row  *)
(* of year index i reports round(initial * (1 + rate/100)^i) for each      *)
(* line.                                                                   *)
C26_RoundedOnlyInRows ==
    (engine = "realEstate" /\ pc \in {"loop", "returned"} /\ NoOverrides) =>
        \A k \in 1 .. Len(rows) :
            /\ ExpenseLinesUnrounded(k)
            /\ IsDefined(inp.monthlyRentalIncome) =>
                   rows[k].monthlyRentalIncome =
                       RoundedGrowth(inp.monthlyRentalIncome.val,
                                     Nullish(inp.rentalIncomeIncreaseRate, Z(0)), k - 1)

\* the minimum the validator computes for the accepted input
MinimumServiceRequired ==
    getMinimumServiceYear(inp.birthYear, inp.retirementAge, inp.retirementType,
                          inp.pensionMultiplier)

(* C27: FERS: for every input the validator accepts, the years of service  *)
(* used to compute the pension (serviceEndYear - serviceStartYear for the  *)
(* deferred type) are at least the minimum service years required for the  *)
(* retirement type, birth year and retirement age.                         *)
C27_ServiceYearsAtLeastMinimum ==
    (engine = "fers" /\ pc \in {"loop", "returned"}) =>
        calculateYearsOfService(inp) >= MinimumServiceRequired

(* C30: FERS: for every input the validator accepts (any retirement type,  *)
(* special-provision multipliers above 1.5, any accepted                   *)
(* survivorBenefitReduction, default COLA >= 0, no overrides) every row's  *)
(* pension and monthlyPension are >= 0.                                    *)
C30_PensionNeverNegative ==
    (engine = "fers" /\ pc \in {"loop", "returned"} /\ NoOverrides
        /\ Le(Z(0), inp.colaPercent)) =>
        \A k \in 1 .. Len(rows) :
            /\ Le(Z(0), rows[k].pension)
            /\ Le(Z(0), rows[k].monthlyPension)

\* loanAmount > 0, annualRate >= 0 and extraPayment >= 0 (0 when not given)
OrdinaryLoan ==
    /\ Lt(Z(0), arg.loanAmount)
    /\ Le(Z(0), arg.annualRate)
    /\ Le(Z(0), Nullish(arg.extraPayment, Z(0)))

(* C29: mortgage amortization with loanAmount > 0, annualRate >= 0 and     *)
(* extraPayment >= 0: in every row payment = principal + interest,         *)
(* interest = (balance before the payment) * annualRate / 1200, principal  *)
(* <= balance before the payment, the row's balance = balance before -     *)
(* principal >= 0, and the balance strictly decreases from row to row.     *)
C29_AmortizationRowIdentities ==
    (engine = "mortgage" /\ OrdinaryLoan) =>
        \A k \in 1 .. Len(rows) :
            /\ rows[k].payment = Add(rows[k].principal, rows[k].interest)
            /\ rows[k].interest =
                   Div(Mul(BalanceBeforeMonth(k), arg.annualRate), Z(1200))
            /\ Le(rows[k].principal, BalanceBeforeMonth(k))
            /\ rows[k].balance = Sub(BalanceBeforeMonth(k), rows[k].principal)
            /\ Le(Z(0), rows[k].balance)
            /\ Lt(rows[k].balance, BalanceBeforeMonth(k))

C29_Witness ==
    /\ engine = "mortgage" /\ pc = "returned" /\ OrdinaryLoan
    /\ arg.loanAmount = Z(3800) /\ arg.annualRate = Z(600)
    /\ arg.extraPayment = Num(Z(0))
    /\ Len(rows) = 3
    /\ rows[1].interest = Z(1900) /\ rows[1].principal = Z(800)
    /\ rows[2].balance = Z(1800)
    /\ rows[3].payment = Z(2700) /\ rows[3].balance = Z(0)

\* the monthly rows of loan year y
MonthsOfYear(y) == { k \in 1 .. Len(rows) : (rows[k].month - 1) \div 12 + 1 = y }

\* the sum of a column over the monthly rows lo .. hi that are in the set
\* months, by halves
RECURSIVE SumOfMonths(_, _, _, _)
SumOfMonths(column, months, lo, hi) ==
    IF lo > hi THEN Z(0)
    ELSE IF lo = hi THEN (IF lo \in months THEN rows[lo][column] ELSE Z(0))
    ELSE Add(SumOfMonths(column, months, lo, (lo + hi) \div 2),
             SumOfMonths(column, months, (lo + hi) \div 2 + 1, hi))

RECURSIVE SumOfYears(_, _)
SumOfYears(column, j) ==
    IF j = 0 THEN Z(0)
    ELSE Add(acc.yearly[j][column], SumOfYears(column, j - 1))

\* the number of loan years the monthly rows span
LoanYears == IF rows = <<>> THEN 0 ELSE (rows[Len(rows)].month - 1) \div 12 + 1

(* C28: groupByYear applied to the rows of calculateMortgageAmortization   *)
(* returns one row per loan year (year = floor((month - 1) / 12) + 1) in   *)
(* ascending year order; each yearly row's payment, principal and interest *)
(* are the sums over that year's monthly rows, so that the totals over the *)
(* yearly rows equal the totals over the monthly rows, and its month, date *)
(* and balance are those of the last monthly row of that year.             *)
C28_YearlyRowsAggregateMonths ==
    (engine = "mortgage" /\ pc = "grouped") =>
        /\ Len(acc.yearly) = LoanYears
        /\ \A j \in 1 .. Len(acc.yearly) :
             LET last == CHOOSE k \in MonthsOfYear(j) :
                             \A m \in MonthsOfYear(j) : m <= k
             IN  /\ acc.yearly[j].year = j
                 /\ MonthsOfYear(j) # {}
                 /\ \A c \in {"payment", "principal", "interest"} :
                        acc.yearly[j][c] = SumOfMonths(c, MonthsOfYear(j), 1, Len(rows))
                 /\ acc.yearly[j].month = rows[last].month
                 /\ acc.yearly[j].date = rows[last].date
                 /\ acc.yearly[j].balance = rows[last].balance
        /\ \A c \in {"payment", "principal", "interest"} :
               SumOfYears(c, Len(acc.yearly)) = SumOfMonths(c, 1 .. Len(rows), 1, Len(rows))

C28_Witness ==
    /\ engine = "mortgage" /\ pc = "grouped"
    /\ arg.loanAmount = Z(32767) /\ arg.annualRate = Z(1200)
    /\ Len(rows) = 15
    /\ Len(acc.yearly) = 2
    /\ acc.yearly[1].month = 12 /\ acc.yearly[1].payment = Z(393216)
    /\ acc.yearly[1].balance = Z(28672)
    /\ acc.yearly[2].month = 15 /\ acc.yearly[2].interest = Z(69632)
    /\ acc.yearly[2].date = rows[15].date
    /\ acc.yearly[2].balance = Z(0)

====
